---- MODULE Spec2Model ----
(***************************************************************************)
(* imap-archiver: the move (archive) and clean (prune) commands of         *)
(* imaparchiver/command_line.py, run against an IMAP4 server through       *)
(* imaparchiver/mailbox.py and imaparchiver/connection.py.                 *)
(*                                                                         *)
(* A mailbox name is the sequence of its path particles (the name split at *)
(* the hierarchy delimiter).  A message is a record                        *)
(*   [uid, seen, deleted, date]                                            *)
(* where uid identifies the message for the whole run (it follows the      *)
(* message into an archive), and the message's sequence number, the id the *)
(* program works with, is its position in the mailbox.                     *)
(***************************************************************************)
EXTENDS Integers, Sequences, FiniteSets, TLC

VARIABLES
    boxes,          \* server: mailbox name -> sequence of messages
    subscribed,     \* server: the subscribed mailbox names
    selected,       \* session: the selected mailbox, NoBox when none is
    cmd,            \* the subcommand run: "move" or "clean"
    dry_run,        \* Config().dry_run
    verbose,        \* Config().verbose
    omit,           \* move: the omit list
    mailbox_from,   \* move: MAILBOX-FROM, clean: MAILBOX
    mailbox_to,     \* move: MAILBOX-TO
    year,           \* move: the cutoff year
    pc,             \* position of the command in its code
    mbs,            \* the listing: name -> Mailbox object
    todo,           \* the rest of "for mb in sorted(mbs)"
    mb,             \* the loop variable mb
    mails_per_year, \* move: the year buckets of mb, in insertion order
    yi,             \* move: index of the bucket "for y in mails_per_year" is at
    report,         \* what the command has written for the user
    log,            \* history: the IMAP commands issued so far
    fails,          \* history: number of injected non-OK answers
    boxes0,         \* history: the server's mailboxes when the command started
    snapshot,       \* history: uids of mb's messages when inspect returned
    connect,        \* the CONNECT argument, a sequence of characters
    host,           \* Connection.parse: host
    port,           \* Connection.parse: port
    username,       \* Connection.parse: username
    password,       \* Connection.parse: password, or what getpass returned
    conn,           \* the connection: "none", "open" or "auth" (logged in)
    capabilities,   \* Connection._capabilities
    exit_code,      \* the exit code of the process once pc = "exit"
    mailbox_deleted, \* imap_clean: the flag of its while loop
    inspected,      \* inspect: what the call returned and what it warned of
    mails_seen,     \* inspect: the seen list the batch loop runs over
    chunk_i,        \* inspect: i of the batch loop
    chunk_m,        \* inspect: m of the batch loop
    fetched,        \* history: the batches fetched so far
    m_ids,          \* download: the rest of "for m_id in ..."
    filename,       \* download: the local variable filename
    files,          \* download: the files written below FOLDER
    mailbox_list,   \* mailboxes: the raw response of the LIST command
    listed          \* mailboxes: the dict it returned

vars == <<boxes, subscribed, selected, cmd, dry_run, verbose, omit, mailbox_from,
          mailbox_to, year, pc, mbs, todo, mb, mails_per_year, yi, report, log,
          fails, boxes0, snapshot, connect, host, port, username, password, conn,
          capabilities, exit_code, mailbox_deleted, inspected, mails_seen,
          chunk_i, chunk_m, fetched, m_ids, filename, files, mailbox_list, listed>>

server == <<boxes, subscribed>>
\* the state of inspect, download and mailboxes where they run on their own
inspecting == <<inspected, mails_seen, chunk_i, chunk_m, fetched>>
downloading == <<m_ids, filename, files>>
listing == <<mailbox_list, listed>>
args == <<cmd, dry_run, verbose, omit, mailbox_from, mailbox_to, year, boxes0>>
params == <<args, inspecting, downloading, listing>>
\* the local variables of move and clean
locals == <<mbs, todo, mb, mails_per_year, yi, report, snapshot>>
session == <<connect, host, port, username, password, conn, capabilities, exit_code>>
\* what move and clean of command_line.py leave as it is
inputs == <<params, session, mailbox_deleted>>
\* what parsing, connecting and logging in leave as it is
command == <<boxes, subscribed, selected, mbs, todo, mb, mails_per_year, yi, report,
             fails, snapshot, mailbox_deleted>>

-----------------------------------------------------------------------------
(* Bounds of the model *)

\* most messages in the source subtree at the start of a run
MaxMsgs == 3
\* most of these messages that lie in the sub-mailbox W.S
MaxSubMsgs == 1
\* most messages in one mailbox of the tree clean prunes
MaxBoxMsgs == 1
\* most non-OK answers the server gives to commands that could have succeeded
MaxFails == 1
\* most characters of a connection string
MaxConnLen == 5
\* most messages in the mailbox inspect is called on
MaxInspectMsgs == 3
\* most ids in the seen list the batch loop of inspect runs over
MaxSeenIds == 2001
\* most entries in the raw response of a LIST command
MaxListLen == 3
\* most messages in the source mailbox of a move to a name with a space
MaxSpacedMsgs == 3
\* most messages in the subtree download runs on
MaxDownloadMsgs == 3

-----------------------------------------------------------------------------
(* Names, years, messages *)

NoBox == <<>>
NoDate == 0
\* a Date line that email.utils.parsedate cannot read
BadDate == 1
\* the local filename of download before its first assignment
Unbound == 0
EmptyToken == 0
ChunkSize == 1000

Years == {2019, 2021, 2023}

\* str(y) of command_line.py:235
YearStr(y) == CASE y = 2019 -> "2019" [] y = 2021 -> "2021" [] y = 2023 -> "2023"

\* the particles in the order Python compares their strings
ParticleOrder == <<"2019", "2021", "2023", "A", "A B", "INBOX", "S", "T", "W">>

Rank(p) == CHOOSE i \in 1..Len(ParticleOrder) : ParticleOrder[i] = p

RECURSIVE NameLess(_, _)
NameLess(a, b) ==
    IF a = <<>> THEN b # <<>>
    ELSE IF b = <<>> THEN FALSE
    ELSE IF Head(a) = Head(b) THEN NameLess(Tail(a), Tail(b))
    ELSE Rank(Head(a)) < Rank(Head(b))

\* sorted(mbs): the names in ascending order
RECURSIVE SortedNames(_)
SortedNames(S) ==
    IF S = {} THEN <<>>
    ELSE LET m == CHOOSE x \in S : \A z \in S \ {x} : NameLess(x, z)
         IN  <<m>> \o SortedNames(S \ {m})

IsPrefix(p, n) == Len(p) <= Len(n) /\ SubSeq(n, 1, Len(p)) = p

SeqsUpTo(S, n) == UNION {[1..k -> S] : k \in 0..n}

RECURSIVE SeqToSet(_)
SeqToSet(s) == IF s = <<>> THEN {} ELSE {Head(s)} \cup SeqToSet(Tail(s))

Uids(box) == {box[i].uid : i \in 1..Len(box)}

-----------------------------------------------------------------------------
(* The IMAP4 server, as the program's calls see it *)

Exists(b, n) == n \in DOMAIN b

\* a mailbox has children when another mailbox lies below it
HasChildren(b, n) == \E m \in DOMAIN b : m # n /\ IsPrefix(n, m)

\* LIST root: the mailboxes at and below root, each with its flags
SrvList(b, root) ==
    { [flags |-> IF HasChildren(b, n) THEN {"HasChildren"} ELSE {"HasNoChildren"},
       name  |-> n] : n \in {m \in DOMAIN b : IsPrefix(root, m)} }

\* the lines of "connection.list(top_mb)", in the order of the names
ListLines(b, root) ==
    LET l == SrvList(b, root)
        ns == SortedNames({e.name : e \in l})
    IN  [i \in 1..Len(ns) |-> CHOOSE e \in l : e.name = ns[i]]

\* the None imaplib puts in the place of the lines of an answer without lines
NoneEntry == [flags |-> {}, name |-> NoBox]

Matches(m, crit) ==
    CASE crit = "ALL" -> TRUE
      [] crit = "SEEN" -> m.seen
      [] crit = "DELETED" -> m.deleted

\* SEARCH crit: the sequence numbers of the matching messages, ascending
RECURSIVE SrvSearchFrom(_, _, _)
SrvSearchFrom(box, crit, i) ==
    IF i > Len(box) THEN <<>>
    ELSE (IF Matches(box[i], crit) THEN <<i>> ELSE <<>>)
         \o SrvSearchFrom(box, crit, i + 1)

SrvSearch(box, crit) == SrvSearchFrom(box, crit, 1)

ValidSet(box, ids) == \A k \in 1..Len(ids) : ids[k] \in 1..Len(box)

ValidIds(box, ids) == SelectSeq(ids, LAMBDA i : i \in 1..Len(box))

\* COPY ids dest: the messages are appended to dest, flags kept
SrvCopy(b, src, ids, dest) ==
    LET v == ValidIds(b[src], ids)
    IN  [b EXCEPT ![dest] = @ \o [k \in 1..Len(v) |-> b[src][v[k]]]]

\* STORE ids +FLAGS (\Deleted)
SrvStore(b, src, ids) ==
    [b EXCEPT ![src] = [i \in 1..Len(@) |->
        IF \E k \in 1..Len(ids) : ids[k] = i THEN [@[i] EXCEPT !.deleted = TRUE]
        ELSE @[i]]]

\* EXPUNGE: the messages flagged \Deleted leave the selected mailbox, and the
\* messages behind them move up
SrvExpunge(b, src) ==
    [b EXCEPT ![src] = SelectSeq(@, LAMBDA m : ~m.deleted)]

\* CREATE name
SrvCreate(b, n) == [m \in DOMAIN b \cup {n} |-> IF m \in DOMAIN b THEN b[m] ELSE <<>>]

\* DELETE name
SrvDelete(b, n) == [m \in DOMAIN b \ {n} |-> b[m]]

\* what a server answers to a message set that names a sequence number the
\* mailbox does not have: BAD (RFC 3501; imaplib raises IMAP4.error on it, which
\* ends the run) or NO (the call returns and the program goes on)
InvalidSetOutcomes == {"NO", "BAD"}

\* the uids the ids denote in box now (0 for an id that denotes nothing)
Denoted(box, ids) ==
    [k \in 1..Len(ids) |-> IF ids[k] \in 1..Len(box) THEN box[ids[k]].uid ELSE 0]

\* the uids the ids denoted when inspect returned them
Wanted(snap, ids) == [k \in 1..Len(ids) |-> snap[ids[k]]]

Ev(op, box, ids, dest, st, got, want) ==
    [op |-> op, box |-> box, ids |-> ids, dest |-> dest, st |-> st,
     got |-> got, want |-> want]

Cmd(op, box, st) == Ev(op, box, <<>>, NoBox, st, <<>>, <<>>)

-----------------------------------------------------------------------------
(* connection.py and mailbox.py *)

\* the spelling of the flags of a listing, in pieces
FlagPieces(f) ==
    CASE f = "HasChildren" -> <<"Has", "Children">>
      [] f = "HasNoChildren" -> <<"Has", "No", "Children">>
      [] f = "Marked" -> <<"Marked">>
      [] f = "Noinferiors" -> <<"No", "inferiors">>

\* needle occurs in s as a run of consecutive pieces
IsInfix(needle, s) ==
    \E k \in 0..(Len(s) - Len(needle)) : SubSeq(s, k + 1, k + Len(needle)) = needle

\* a Mailbox whose children test looks for "Children" in the flags
MailboxNewChildren(entry) ==
    [children |-> \E f \in entry.flags : IsInfix(<<"Children">>, FlagPieces(f)),
     path |-> entry.name]

\* Mailbox.__init__: the Mailbox object of one line of the listing;
\* "re.match('.*HasChildren.*', flags)" finds HasChildren anywhere in the flags
MailboxNew(entry) ==
    [children |-> \E f \in entry.flags : IsInfix(<<"Has", "Children">>, FlagPieces(f)),
     path |-> entry.name]

\* "for m in mailbox_list: if m is not None: mbs[mb.name] = mb": an entry
\* replaces an earlier one of its name
MailboxesOf(list) ==
    [n \in {list[k].name : k \in {j \in 1..Len(list) : list[j] # NoneEntry}} |->
        MailboxNew(list[CHOOSE k \in 1..Len(list) :
                            /\ list[k].name = n
                            /\ \A j \in (k + 1)..Len(list) : list[j].name # n])]

MaxPermuted == 4

\* the sequences that hold each element of S once
RECURSIVE Permuted(_)
Permuted(S) ==
    IF S = {} THEN {<<>>}
    ELSE UNION {{<<x>> \o p : p \in Permuted(S \ {x})} : x \in S}

RECURSIVE Reversed(_)
Reversed(s) == IF s = <<>> THEN <<>> ELSE Append(Reversed(Tail(s)), Head(s))

\* the sequence l in every order, for an l of up to MaxPermuted entries; as it
\* is and backwards, for a longer one
Orders(l) == IF Len(l) <= MaxPermuted THEN Permuted(SeqToSet(l)) ELSE {l, Reversed(l)}

\* what "self._connection.list(root)" may return as data: the server gives the
\* lines in an order of its own
Responses(b, root) ==
    IF SrvList(b, root) = {} THEN {<<NoneEntry>>}
    ELSE UNION {Orders(l) : l \in {ListLines(b, root)}}

\* the answers to the LIST of a command: any of the responses or, where the
\* order of the server is fixed beforehand (preset), that one
Answers(b, root, preset) == IF preset = <<>> THEN Responses(b, root) ELSE {preset}

\* the keys of the dict mbs in the order a "for mb in mbs" goes through them:
\* the order in which "mbs[mb.name] = mb" has first set them
RECURSIVE Keys(_)
Keys(list) ==
    IF list = <<>> THEN <<>>
    ELSE LET front == Keys(SubSeq(list, 1, Len(list) - 1))
             e     == list[Len(list)]
         IN  IF e = NoneEntry \/ e.name \in SeqToSet(front) THEN front
             ELSE Append(front, e.name)

\* a loop that takes the keys as the dict gives them
SortedAsListed(keys) == keys

\* "sorted(mbs)"
Sorted(keys) == CHOOSE s \in {SortedNames(S) : S \in {SeqToSet(keys)}} : TRUE

\* bytes.decode().split(' '): an empty answer splits into one empty token
DecodeSplit(raw) == IF raw = <<>> THEN <<EmptyToken>> ELSE raw

\* a search result taken as it was split
NormaliseKept(l) == l

\* "if len(l) > 0 and l[0] == '': l.pop()"
Normalise(l) ==
    IF Len(l) > 0 /\ l[1] = EmptyToken THEN SubSeq(l, 1, Len(l) - 1) ELSE l

\* Mailbox._year_from_mail_header: the year of the Date line; None when the
\* header has no Date line and when parsedate fails on the line
YearFromMailHeader(m) == IF m.date = BadDate THEN NoDate ELSE m.date

\* the "except:" of _year_from_mail_header, which writes the two error lines:
\* it is reached from a Date line only
HeaderWarns(m) == m.date = BadDate

\* an append that puts the id in every bucket there is
AddMailAll(mpy, y, id) ==
    [i \in 1..Len(mpy) |-> [mpy[i] EXCEPT !.ids = Append(@, id)]]
    \o (IF \E i \in 1..Len(mpy) : mpy[i].y = y THEN <<>>
        ELSE <<[y |-> y, ids |-> <<id>>]>>)

\* "mails_per_year[mail_year].append(mail_id)", a new year is inserted last
AddMail(mpy, y, id) ==
    IF \E i \in 1..Len(mpy) : mpy[i].y = y
    THEN [i \in 1..Len(mpy) |->
            IF mpy[i].y = y THEN [mpy[i] EXCEPT !.ids = Append(@, id)] ELSE mpy[i]]
    ELSE Append(mpy, [y |-> y, ids |-> <<id>>])

\* "mails_seen[i:i + 1000]"
Slice(l, i) ==
    SubSeq(l, i + 1, IF i + ChunkSize < Len(l) THEN i + ChunkSize ELSE Len(l))

\* a step of the batch loop that is one id short of the batch
ChunkAdvanceShort(i) == i + ChunkSize - 1

\* "i = i + 1000"
ChunkAdvance(i) == i + ChunkSize

\* the chunks "m = mails_seen[i:i + 1000]" of the while loop
RECURSIVE Chunks(_, _)
Chunks(l, i) ==
    LET m == Slice(l, i)
    IN  IF Len(m) = 0 THEN <<>> ELSE <<m>> \o Chunks(l, ChunkAdvance(i))

\* "for h in header_data": the fetched headers of one chunk, in id order
RECURSIVE ClassifyChunk(_, _, _)
ClassifyChunk(box, m, mpy) ==
    IF m = <<>> THEN mpy
    ELSE LET mail_year == YearFromMailHeader(box[Head(m)])
         IN  ClassifyChunk(box, Tail(m),
                 IF mail_year # NoDate THEN AddMail(mpy, mail_year, Head(m)) ELSE mpy)

\* the header_data of a fetch: one tuple for each id that names a message
RECURSIVE ClassifyChunks(_, _, _)
ClassifyChunks(box, cs, mpy) ==
    IF cs = <<>> THEN mpy
    ELSE ClassifyChunks(box, Tail(cs),
                        ClassifyChunk(box, ValidIds(box, Head(cs)), mpy))

\* the message part inspect fetches, with the \Seen flag set by the fetch
HeaderPartSeen == "(BODY[HEADER])"

\* "self.fetch(','.join(m), '(BODY.PEEK[HEADER])')"
HeaderPart == "(BODY.PEEK[HEADER])"

\* FETCH ids part: a part fetched without PEEK sets \Seen on the messages
SrvFetch(b, n, ids, part) ==
    IF part = "(BODY.PEEK[HEADER])" THEN b
    ELSE [b EXCEPT ![n] = [i \in 1..Len(@) |->
            IF \E k \in 1..Len(ids) : ids[k] = i THEN [@[i] EXCEPT !.seen = TRUE]
            ELSE @[i]]]

\* Mailbox.inspect
Inspect(box) ==
    LET all_ids       == Normalise(DecodeSplit(SrvSearch(box, "ALL")))
        seen_ids      == Normalise(DecodeSplit(SrvSearch(box, "SEEN")))
        deleted_ids   == Normalise(DecodeSplit(SrvSearch(box, "DELETED")))
    IN  [all |-> all_ids, seen |-> seen_ids, deleted |-> deleted_ids,
         per_year |-> IF Len(seen_ids) > 0
                      THEN ClassifyChunks(box, Chunks(seen_ids, 0), <<>>)
                      ELSE <<>>,
         warned |-> SelectSeq(ValidIds(box, seen_ids),
                              LAMBDA id : HeaderWarns(box[id]))]

\* a Mailbox method that does not select its mailbox before it acts
MailboxSelectSkipped(n) == <<>>

\* "self.select()", the first statement of search, fetch, copy, store and
\* expunge of Mailbox
MailboxSelect(n) == <<Cmd("select", n, "OK")>>

\* the commands inspect issues: each search and each fetch selects first
InspectLog(n, box) ==
    LET cs == Chunks(Inspect(box).seen, 0)
        fetches[k \in 0..Len(cs)] ==
            IF k = 0 THEN <<>>
            ELSE fetches[k - 1] \o
                 MailboxSelect(n) \o
                 <<Ev("fetch", n, cs[k], NoBox, "OK", Denoted(box, cs[k]), Denoted(box, cs[k]))
                   @@ [part |-> HeaderPart]>>
    IN  MailboxSelect(n) \o <<Cmd("search", n, "OK")>> \o
        MailboxSelect(n) \o <<Cmd("search", n, "OK")>> \o
        MailboxSelect(n) \o <<Cmd("search", n, "OK")>> \o fetches[Len(cs)]

\* a create_mailbox that creates every prefix, selected or not
NeedsCreateAlways(r) == TRUE

\* "if r == 'NO': self._connection.create(mb_quoted)"
NeedsCreate(r) == r = "NO"

\* Connection.create_mailbox from prefix k on: select the prefix, create it
\* when the select answered NO, subscribe it.  failAt is the prefix whose
\* create the server refuses (0 for none).
RECURSIVE CreateMailbox(_, _, _, _)
CreateMailbox(st, path, k, failAt) ==
    IF k > Len(path) THEN st
    ELSE LET p   == SubSeq(path, 1, k)
             r   == IF Exists(st.boxes, p) THEN "OK" ELSE "NO"
             cst == IF k = failAt THEN "NO" ELSE "OK"
             b1  == IF NeedsCreate(r) /\ cst = "OK" THEN SrvCreate(st.boxes, p) ELSE st.boxes
             sst == IF Exists(b1, p) THEN "OK" ELSE "NO"
         IN  CreateMailbox(
                 [boxes      |-> b1,
                  subscribed |-> IF sst = "OK" THEN st.subscribed \cup {p}
                                 ELSE st.subscribed,
                  selected   |-> IF r = "OK" THEN p ELSE NoBox,
                  log        |-> st.log \o <<Cmd("select", p, r)>>
                                 \o (IF NeedsCreate(r) THEN <<Cmd("create", p, cst)>> ELSE <<>>)
                                 \o <<Cmd("subscribe", p, sst)>>,
                  refused    |-> st.refused \/ (NeedsCreate(r) /\ cst = "NO")],
                 path, k + 1, failAt)

\* "archive_mailbox = mailbox_to + delimiter + str(y) + delimiter + mb"
ArchiveMailbox(to, y, n) == to \o <<YearStr(y)>> \o n

\* the particles that are spelled with a space
Spaced == {"A B"}

\* "if ' ' in archive_mailbox: archive_mailbox = '"' + archive_mailbox + '"'":
\* whether the path is put between double quotes
Quoted(path) == \E k \in 1..Len(path) : path[k] \in Spaced

\* a move that mutates in a dry run too
MoveMutatesAlways(d) == TRUE

\* "if Config().dry_run is False" of move
MoveMutates(d) == d = FALSE

\* a test that takes the bucket of the cutoff year for old too
IsOldOrCutoff(y, cutoff) == y <= cutoff

\* "if y < year" of move
IsOld(y, cutoff) == y < cutoff

\* the answers the server can give to COPY, STORE and EXPUNGE
CopyAnswers(b, src, ids, dest) ==
    IF ~Exists(b, dest) THEN {"NO"}
    ELSE IF ~ValidSet(b[src], ids) THEN InvalidSetOutcomes
    ELSE {"OK"}

StoreAnswers(b, src, ids) ==
    IF ~ValidSet(b[src], ids) THEN InvalidSetOutcomes ELSE {"OK"}

\* besides its answer the server can refuse a command while the budget lasts
WithRefusal(answers) == answers \cup (IF fails < MaxFails THEN {"NO"} ELSE {})

Refused(answers, st) == IF st \in answers THEN fails ELSE fails + 1

-----------------------------------------------------------------------------
(* Connection.parse, Connection.establish and Connection.login *)

\* the characters of a connection string: a letter, the two separators, a digit
Chars == {"a", "@", ":", "1"}

Digits == {"1"}

\* "port = 0": no port given
NoPort == 0

\* str.split(c): the pieces of s between the occurrences of c
RECURSIVE Split(_, _)
Split(s, c) ==
    IF \A i \in 1..Len(s) : s[i] # c THEN <<s>>
    ELSE LET i == CHOOSE k \in 1..Len(s) : s[k] = c /\ \A j \in 1..(k - 1) : s[j] # c
         IN  <<SubSeq(s, 1, i - 1)>> \o Split(SubSeq(s, i + 1, Len(s)), c)

\* c.join(parts), for at least one part
RECURSIVE Join(_, _)
Join(parts, c) ==
    IF Len(parts) = 1 THEN parts[1]
    ELSE parts[1] \o <<c>> \o Join(Tail(parts), c)

\* int(s) raises unless s is a non-empty string of digits
IsInt(s) == Len(s) > 0 /\ \A i \in 1..Len(s) : s[i] \in Digits

DigitVal(d) == CASE d = "1" -> 1

RECURSIVE ToInt(_)
ToInt(s) ==
    IF s = <<>> THEN 0
    ELSE 10 * ToInt(SubSeq(s, 1, Len(s) - 1)) + DigitVal(s[Len(s)])

\* "sys.exit(1)" of Connection.parse
ParseExit ==
    [exit |-> 1, host |-> <<>>, port |-> NoPort, username |-> <<>>,
     password |-> <<>>, ask |-> FALSE]

\* Connection.parse.  ask says that no password was given (password is None)
\* and getpass is to ask for it.
Parse(c) ==
    LET parts_at == Split(c, "@")
    IN  IF Len(parts_at) = 1 THEN ParseExit
        ELSE
        LET host_and_port     == parts_at[Len(parts_at)]
            user_and_password == Join(SubSeq(parts_at, 1, Len(parts_at) - 1), "@")
            hp == Split(host_and_port, ":")
            up == Split(user_and_password, ":")
        IN  IF Len(hp) > 1 /\ ~IsInt(hp[Len(hp)]) THEN ParseExit
            ELSE
            LET h  == IF Len(hp) = 1 THEN host_and_port ELSE SubSeq(hp, 1, Len(hp) - 1)[1]
                pt == IF Len(hp) = 1 THEN NoPort ELSE ToInt(hp[Len(hp)])
            IN  IF h = <<>> THEN ParseExit
                ELSE [exit     |-> 0,
                      host     |-> h,
                      port     |-> pt,
                      username |-> IF Len(up) = 1 THEN user_and_password
                                   ELSE SubSeq(up, 1, Len(up) - 1)[1],
                      password |-> IF Len(up) = 1 THEN <<>> ELSE up[Len(up)],
                      ask      |-> Len(up) = 1]

\* a capability the server advertises: 'AUTH=<rest>' or a plain word
Cap(prefix, rest) == [prefix |-> prefix, rest |-> rest]

Caps ==
    {Cap("", "IMAP4rev1"), Cap("", "STARTTLS"), Cap("AUTH=", "CRAM-MD5"),
     Cap("AUTH=", "PLAIN"), Cap("AUTH=", "GSSAPI")}

\* Connection._pick_auth_methods: the <rest> of every capability 'AUTH=<rest>'
PickAuthMethods(caps) == {c.rest : c \in {d \in caps : d.prefix = "AUTH="}}

\* the login call that takes plaintext login first
LoginCallPlainFirst(auth_methods) ==
    IF "PLAIN" \in auth_methods THEN "login"
    ELSE IF "CRAM-MD5" \in auth_methods THEN "login_cram_md5"
    ELSE "none"

\* the login call Connection.login makes for the methods picked
LoginCall(auth_methods) ==
    IF "CRAM-MD5" \in auth_methods THEN "login_cram_md5"
    ELSE IF "PLAIN" \in auth_methods THEN "login"
    ELSE "none"

\* the connection string of the runs that start with the session set up
ConnectUp == <<"a", ":", "a", "@", "a">>

\* the session after Connection.__init__ has returned
SessionUp ==
    /\ connect = ConnectUp
    /\ host = Parse(ConnectUp).host
    /\ port = Parse(ConnectUp).port
    /\ username = Parse(ConnectUp).username
    /\ password = Parse(ConnectUp).password
    /\ conn = "auth"
    /\ capabilities = {Cap("", "IMAP4rev1"), Cap("AUTH=", "PLAIN")}
    /\ exit_code = 0

-----------------------------------------------------------------------------
(* The states a run starts in *)

W   == <<"W">>
WS  == <<"W", "S">>
WST == <<"W", "S", "T">>
WT  == <<"W", "T">>
INBOX == <<"INBOX">>

\* the messages of a source mailbox of move.  The program never reads the
\* Date of an unseen message, so the unseen ones all carry an old date; and it
\* flags every old seen message \Deleted itself, so only the messages it is to
\* leave alone start with the flag set or clear.
MoveKinds ==
    [seen : {TRUE}, deleted : {FALSE}, date : Years \cup {NoDate}]
    \cup [seen : {TRUE}, deleted : {TRUE}, date : {2023}]
    \cup [seen : {FALSE}, deleted : BOOLEAN, date : {2019}]

\* the messages of a mailbox clean looks at: it reads no flag and no header,
\* and the server's expunge reads \Deleted
CleanKinds == [seen : {TRUE}, deleted : BOOLEAN, date : {2019}]

\* messages of the given kinds, numbered from base + 1
Stamp(kinds, base) ==
    [i \in 1..Len(kinds) |->
        [uid |-> base + i, seen |-> kinds[i].seen, deleted |-> kinds[i].deleted,
         date |-> kinds[i].date]]

\* what inspect returns for a mailbox without messages
NoMails == [all |-> <<>>, seen |-> <<>>, deleted |-> <<>>, per_year |-> <<>>,
            warned |-> <<>>]

\* no inspect, download or listing that runs on its own
NotInspecting ==
    /\ inspected = NoMails /\ mails_seen = <<>> /\ chunk_i = 0 /\ chunk_m = <<>>
    /\ fetched = <<>>

NotDownloading == m_ids = <<>> /\ filename = Unbound /\ files = {}

NotListing == mailbox_list = <<>> /\ listed = <<>>

\* nothing of a command, of any command, has run
FreshCommand ==
    /\ mbs = <<>> /\ todo = <<>> /\ mb = NoBox /\ mails_per_year = <<>> /\ yi = 0
    /\ report = <<>> /\ log = <<>> /\ fails = 0 /\ snapshot = <<>>
    /\ selected = NoBox /\ subscribed = {} /\ mailbox_deleted = FALSE

\* nothing of the command has run
Fresh == FreshCommand /\ NotInspecting /\ NotDownloading /\ NotListing

Idle == Fresh /\ SessionUp /\ pc = "start"

\* the omit lists of move: none, 'W.S', and 'W,W.s', which names the parent of
\* W.S and a name that differs from W.S by case only
OmitLists == {{}, {WS}, {W, <<"W", "s">>}}

\* move W to A: up to MaxMsgs messages over the mailboxes W and W.S
InitMove ==
    /\ cmd = "move"
    /\ dry_run \in BOOLEAN
    /\ verbose = FALSE
    /\ omit \in OmitLists
    /\ mailbox_from = W
    /\ mailbox_to = <<"A">>
    /\ year = 2023
    /\ \E ms \in SeqsUpTo(MoveKinds, MaxMsgs) :
       \E k \in {j \in 0..Len(ms) : Len(ms) - j <= MaxSubMsgs} :
          boxes = (INBOX :> <<>>) @@ (W :> SubSeq(Stamp(ms, 0), 1, k))
                  @@ (WS :> SubSeq(Stamp(ms, 0), k + 1, Len(ms)))
    /\ boxes0 = boxes
    /\ Idle

-----------------------------------------------------------------------------
(* move, command_line.py *)

\* "mbs = con.mailboxes(mailbox_from)" and the start of "for mb in sorted(mbs)"
MoveList ==
    /\ cmd = "move" /\ pc = "start"
    /\ \E r \in Answers(boxes, mailbox_from, mailbox_list) :
         /\ mbs' = MailboxesOf(r)
         /\ todo' = Sorted(Keys(r))
    /\ log' = Append(log, Cmd("list", mailbox_from, "OK"))
    /\ pc' = "loop"
    /\ UNCHANGED <<server, selected, inputs, mb, mails_per_year, yi, report, fails,
                   snapshot>>

\* an omit test that also passes over what lies below an entry
OmittedWithChildren(n, o) == \E e \in o : IsPrefix(e, n)

\* an omit test that passes over nothing
OmittedNever(n, o) == FALSE

\* "if mb in omit"
Omitted(n, o) == n \in o

\* the head of the loop over the mailboxes: the next mailbox, skipped when it
\* is in the omit list
MoveNext ==
    /\ cmd = "move" /\ pc = "loop"
    /\ IF todo = <<>>
       THEN pc' = "done" /\ UNCHANGED <<mb, todo>>
       ELSE /\ mb' = Head(todo)
            /\ todo' = Tail(todo)
            /\ pc' = IF Omitted(Head(todo), omit) THEN "loop" ELSE "inspect"
    /\ UNCHANGED <<server, selected, inputs, mbs, mails_per_year, yi, report, log,
                   fails, snapshot>>

\* "mails_all, mails_seen, mails_deleted, mails_per_year = mbs[mb].inspect()"
MoveInspect ==
    /\ cmd = "move" /\ pc = "inspect"
    /\ mails_per_year' = Inspect(boxes[mb]).per_year
    /\ yi' = 1
    /\ snapshot' = [i \in 1..Len(boxes[mb]) |-> boxes[mb][i].uid]
    /\ selected' = mb
    /\ log' = log \o InspectLog(mb, boxes[mb])
    /\ pc' = "bucket"
    /\ UNCHANGED <<server, inputs, mbs, todo, mb, report, fails>>

\* the head of "for y in mails_per_year": an old bucket is reported and, in a
\* live run, moved; any other bucket is passed over
MoveBucket ==
    /\ cmd = "move" /\ pc = "bucket"
    /\ IF yi > Len(mails_per_year)
       THEN pc' = "loop" /\ UNCHANGED <<yi, report>>
       ELSE IF IsOld(mails_per_year[yi].y, year)
            THEN /\ report' = Append(report,
                        [src |-> mb,
                         dst |-> ArchiveMailbox(mailbox_to, mails_per_year[yi].y, mb),
                         quoted |-> Quoted(ArchiveMailbox(mailbox_to,
                                                          mails_per_year[yi].y, mb)),
                         n   |-> Len(mails_per_year[yi].ids)])
                 /\ IF MoveMutates(dry_run)
                    THEN pc' = "create" /\ yi' = yi
                    ELSE pc' = "bucket" /\ yi' = yi + 1
            ELSE pc' = "bucket" /\ yi' = yi + 1 /\ UNCHANGED report
    /\ UNCHANGED <<server, selected, inputs, mbs, todo, mb, mails_per_year, log, fails,
                   snapshot>>

\* "con.create_mailbox(archive_mailbox, mbs[mb].delimiter)"
MoveCreate ==
    /\ cmd = "move" /\ pc = "create"
    /\ LET path == ArchiveMailbox(mailbox_to, mails_per_year[yi].y, mb)
       IN  \E failAt \in 0..(IF fails < MaxFails THEN Len(path) ELSE 0) :
             LET r == CreateMailbox([boxes |-> boxes, subscribed |-> subscribed,
                                     selected |-> selected, log |-> log,
                                     refused |-> FALSE], path, 1, failAt)
             IN  /\ (failAt # 0) = r.refused
                 /\ boxes' = r.boxes
                 /\ subscribed' = r.subscribed
                 /\ selected' = r.selected
                 /\ log' = r.log
                 /\ fails' = IF r.refused THEN fails + 1 ELSE fails
    /\ pc' = "copy"
    /\ UNCHANGED <<inputs, mbs, todo, mb, mails_per_year, yi, report, snapshot>>

\* "mbs[mb].copy(mails_per_year[y], archive_mailbox)": Mailbox.copy selects mb
\* and copies; the answer of the copy is not looked at
MoveCopy ==
    /\ cmd = "move" /\ pc = "copy"
    /\ LET ids  == mails_per_year[yi].ids
           dest == ArchiveMailbox(mailbox_to, mails_per_year[yi].y, mb)
           ans  == CopyAnswers(boxes, mb, ids, dest)
       IN  IF Len(ids) = 0 \/ Len(dest) = 0
           THEN pc' = "store" /\ UNCHANGED <<boxes, selected, log, fails>>
           ELSE \E st \in WithRefusal(ans) :
                  /\ selected' = mb
                  /\ boxes' = IF st = "OK" THEN SrvCopy(boxes, mb, ids, dest) ELSE boxes
                  /\ log' = log \o MailboxSelect(mb) \o
                                     <<Ev("copy", mb, ids, dest, st,
                                        Denoted(boxes[mb], ids), Wanted(snapshot, ids))>>
                  /\ fails' = Refused(ans, st)
                  /\ pc' = IF st = "BAD" THEN "error" ELSE "store"
    /\ UNCHANGED <<subscribed, inputs, mbs, todo, mb, mails_per_year, yi, report,
                   snapshot>>

\* "mbs[mb].store(mails_per_year[y], '+FLAGS', r'(\Deleted)')"
MoveStore ==
    /\ cmd = "move" /\ pc = "store"
    /\ LET ids == mails_per_year[yi].ids
           ans == StoreAnswers(boxes, mb, ids)
       IN  \E st \in WithRefusal(ans) :
             /\ selected' = mb
             /\ boxes' = IF st = "OK" THEN SrvStore(boxes, mb, ids) ELSE boxes
             /\ log' = log \o MailboxSelect(mb) \o
                                <<Ev("store", mb, ids, NoBox, st,
                                   Denoted(boxes[mb], ids), Wanted(snapshot, ids))>>
             /\ fails' = Refused(ans, st)
             /\ pc' = IF st = "BAD" THEN "error" ELSE "expunge"
    /\ UNCHANGED <<subscribed, inputs, mbs, todo, mb, mails_per_year, yi, report,
                   snapshot>>

\* "mbs[mb].expunge()", inside the loop over the buckets
MoveExpunge ==
    /\ cmd = "move" /\ pc = "expunge"
    /\ \E st \in WithRefusal({"OK"}) :
         /\ selected' = mb
         /\ boxes' = IF st = "OK" THEN SrvExpunge(boxes, mb) ELSE boxes
         /\ log' = log \o MailboxSelect(mb) \o <<Cmd("expunge", mb, st)>>
         /\ fails' = Refused({"OK"}, st)
    /\ yi' = yi + 1
    /\ pc' = "bucket"
    /\ UNCHANGED <<subscribed, inputs, mbs, todo, mb, mails_per_year, report, snapshot>>

NextMove ==
    \/ MoveList
    \/ MoveNext
    \/ MoveInspect
    \/ MoveBucket
    \/ MoveCreate
    \/ MoveCopy
    \/ MoveStore
    \/ MoveExpunge

SpecMove == InitMove /\ [][NextMove]_vars

MaxFrameMsgs == 2

\* move W to A as in InitMove, with up to MaxFrameMsgs messages
InitMoveFrame ==
    /\ InitMove
    /\ Len(boxes[W]) + Len(boxes[WS]) <= MaxFrameMsgs

SpecMoveFrame == InitMoveFrame /\ [][NextMove]_vars

\* the plain runs of move: no message is flagged \Deleted when the run starts
\* and the server refuses no command it could carry out
InitMovePlain ==
    /\ InitMove
    /\ \A n \in DOMAIN boxes : \A i \in 1..Len(boxes[n]) : ~boxes[n][i].deleted

NextMovePlain ==
    \/ MoveList
    \/ MoveNext
    \/ MoveInspect
    \/ MoveBucket
    \/ MoveCreate /\ fails' = fails
    \/ MoveCopy /\ fails' = fails
    \/ MoveStore /\ fails' = fails
    \/ MoveExpunge /\ fails' = fails

SpecMovePlain == InitMovePlain /\ [][NextMovePlain]_vars

\* move W to A or to 'A B', with the cutoff at the middle or at the last of
\* the years: up to MaxSpacedMsgs seen messages in W, none in W.S
InitMoveSpaced ==
    /\ cmd = "move"
    /\ dry_run \in BOOLEAN
    /\ verbose = FALSE
    /\ omit = {}
    /\ mailbox_from = W
    /\ mailbox_to \in {<<"A">>, <<"A B">>}
    /\ year \in {2021, 2023}
    /\ \E ms \in SeqsUpTo([seen : {TRUE}, deleted : {FALSE}, date : Years],
                           MaxSpacedMsgs) :
          boxes = (INBOX :> <<>>) @@ (W :> Stamp(ms, 0)) @@ (WS :> <<>>)
    /\ boxes0 = boxes
    /\ Idle

SpecMoveSpaced == InitMoveSpaced /\ [][NextMovePlain]_vars

MaxTwiceMsgs == 2

\* the archive root below the source root
WA == <<"W", "A">>

\* a live move of W to A or to W.A, the latter inside the subtree it moves
\* from: up to MaxTwiceMsgs seen messages in W, none in W.S
InitMoveTwice ==
    /\ cmd = "move"
    /\ dry_run = FALSE
    /\ verbose = FALSE
    /\ omit = {}
    /\ mailbox_from = W
    /\ mailbox_to \in {<<"A">>, WA}
    /\ year = 2023
    /\ \E ms \in SeqsUpTo([seen : {TRUE}, deleted : {FALSE}, date : Years],
                           MaxTwiceMsgs) :
          boxes = (INBOX :> <<>>) @@ (W :> Stamp(ms, 0)) @@ (WS :> <<>>)
    /\ boxes0 = boxes
    /\ Idle

\* the command is started anew, with the same arguments, after a run that has
\* come to its end with every command answered OK (but the select by which
\* create_mailbox finds out that a mailbox is missing): a new process and a new
\* connection, the server as the first run left it.  The log keeps the commands
\* of the first run, closed by a "run" entry.
MoveAgain ==
    /\ cmd = "move" /\ pc = "done"
    /\ {j \in 1..Len(log) : log[j].op = "run"} = {}
    /\ {j \in 1..Len(log) : log[j].st # "OK" /\ log[j].op # "select"} = {}
    /\ pc' = "start"
    /\ mbs' = <<>> /\ todo' = <<>> /\ mb' = NoBox /\ mails_per_year' = <<>> /\ yi' = 0
    /\ report' = <<>> /\ snapshot' = <<>>
    /\ selected' = NoBox
    /\ log' = Append(log, Cmd("run", NoBox, "OK"))
    /\ UNCHANGED <<server, inputs, fails>>

NextMoveTwice ==
    \/ NextMovePlain
    \/ MoveAgain

SpecMoveTwice == InitMoveTwice /\ [][NextMoveTwice]_vars

-----------------------------------------------------------------------------
(* clean, command_line.py *)

\* the trees clean is run on: W, with any of W.S, W.S.T and W.T below it
CleanTrees ==
    {t \in SUBSET {W, WS, WST, WT} : W \in t /\ (WST \in t => WS \in t)}

\* clean W: each mailbox of the tree holds up to MaxBoxMsgs messages
InitClean ==
    /\ cmd = "clean"
    /\ dry_run \in BOOLEAN
    /\ verbose \in BOOLEAN
    /\ omit = {}
    /\ mailbox_from = W
    /\ mailbox_to = NoBox
    /\ year = 0
    /\ \E t \in CleanTrees :
         \E c \in [t -> SeqsUpTo(CleanKinds, MaxBoxMsgs)] :
           boxes = (INBOX :> <<>>) @@
                   [n \in t |-> Stamp(c[n], 10 * Len(SelectSeq(SortedNames(t),
                                                      LAMBDA m : NameLess(m, n))))]
    /\ boxes0 = boxes
    /\ Idle

\* a test that passes every mailbox without messages
RemovableEmpty(mail_count, children) == mail_count = 0

\* "if mail_count == 0 and not mbs[mb].children"
Removable(mail_count, children) == mail_count = 0 /\ ~children

\* "if Config().dry_run is False" of clean
CleanMutates(d) == d = FALSE

\* "mbs = con.mailboxes(mailbox)" and the start of "for mb in sorted(mbs)"
CleanList ==
    /\ cmd = "clean" /\ pc = "start"
    /\ \E r \in Answers(boxes, mailbox_from, mailbox_list) :
         /\ mbs' = MailboxesOf(r)
         /\ todo' = Sorted(Keys(r))
    /\ log' = Append(log, Cmd("list", mailbox_from, "OK"))
    /\ pc' = "loop"
    /\ UNCHANGED <<server, selected, inputs, mb, mails_per_year, yi, report, fails,
                   snapshot>>

\* the head of the loop over the mailboxes
CleanNext ==
    /\ cmd = "clean" /\ pc = "loop"
    /\ IF todo = <<>>
       THEN pc' = "done" /\ UNCHANGED <<mb, todo>>
       ELSE mb' = Head(todo) /\ todo' = Tail(todo) /\ pc' = "expunge"
    /\ UNCHANGED <<server, selected, inputs, mbs, mails_per_year, yi, report, log,
                   fails, snapshot>>

\* "mbs[mb].expunge()": Mailbox.expunge selects mb and expunges it
CleanExpunge ==
    /\ cmd = "clean" /\ pc = "expunge"
    /\ \E st \in WithRefusal({"OK"}) :
         /\ selected' = mb
         /\ boxes' = IF st = "OK" THEN SrvExpunge(boxes, mb) ELSE boxes
         /\ log' = log \o MailboxSelect(mb) \o <<Cmd("expunge", mb, st)>>
         /\ fails' = Refused({"OK"}, st)
    /\ pc' = "select"
    /\ UNCHANGED <<subscribed, inputs, mbs, todo, mb, mails_per_year, yi, report,
                   snapshot>>

\* "mail_count = mbs[mb].select()" and the test on it: an empty mailbox without
\* children is reported when verbose and, in a live run, goes on to its delete
CleanSelect ==
    /\ cmd = "clean" /\ pc = "select"
    /\ selected' = mb
    /\ log' = log \o MailboxSelect(mb)
    /\ IF Removable(Len(boxes[mb]), mbs[mb].children)
       THEN /\ report' = IF verbose THEN Append(report, [src |-> mb]) ELSE report
            /\ pc' = IF CleanMutates(dry_run) THEN "delete" ELSE "loop"
       ELSE pc' = "loop" /\ UNCHANGED report
    /\ UNCHANGED <<server, inputs, mbs, todo, mb, mails_per_year, yi, fails, snapshot>>

\* "mbs[mb].delete()": Mailbox.delete selects the default mailbox, INBOX, and
\* deletes mb
CleanDelete ==
    /\ cmd = "clean" /\ pc = "delete"
    /\ \E st \in WithRefusal({"OK"}) :
         /\ selected' = IF Exists(boxes, INBOX) THEN INBOX ELSE NoBox
         /\ boxes' = IF st = "OK" THEN SrvDelete(boxes, mbs[mb].path) ELSE boxes
         /\ log' = log \o <<Cmd("select", INBOX, IF Exists(boxes, INBOX) THEN "OK" ELSE "NO"),
                            Cmd("delete", mbs[mb].path, st)>>
         /\ fails' = Refused({"OK"}, st)
    /\ pc' = "loop"
    /\ UNCHANGED <<subscribed, inputs, mbs, todo, mb, mails_per_year, yi, report,
                   snapshot>>

NextClean ==
    \/ CleanList
    \/ CleanNext
    \/ CleanExpunge
    \/ CleanSelect
    \/ CleanDelete

SpecClean == InitClean /\ [][NextClean]_vars

-----------------------------------------------------------------------------
(* imap_clean, bin/imap-archiver.py.  The log keeps the commands of the      *)
(* imaparchiver package only, so imap_clean leaves it as it is.              *)

\* imap_clean W: the trees and messages of InitClean
InitImapClean ==
    /\ cmd = "imap_clean"
    /\ dry_run \in BOOLEAN
    /\ verbose = FALSE
    /\ omit = {}
    /\ mailbox_from = W
    /\ mailbox_to = NoBox
    /\ year = 0
    /\ \E t \in CleanTrees :
         \E c \in [t -> SeqsUpTo(CleanKinds, MaxBoxMsgs)] :
           boxes = (INBOX :> <<>>) @@
                   [n \in t |-> Stamp(c[n], 10 * Len(SelectSeq(SortedNames(t),
                                                      LAMBDA m : NameLess(m, n))))]
    /\ boxes0 = boxes
    /\ Idle

\* "if delimiter not in mailbox_name: continue" and
\* "if flags == '\\HasChildren': continue"
ImapCleanSkips(e) == ~(Len(e.name) > 1) \/ e.flags = {"HasChildren"}

\* "mailbox_deleted = True" before the while loop
ImapCleanStart ==
    /\ cmd = "imap_clean" /\ pc = "start"
    /\ mailbox_deleted' = TRUE
    /\ pc' = "while"
    /\ UNCHANGED <<server, selected, params, session, mbs, todo, mb, mails_per_year,
                   yi, report, log, fails, snapshot>>

\* "while mailbox_deleted:", and the listing a pass starts with
ImapCleanWhile ==
    /\ cmd = "imap_clean" /\ pc = "while"
    /\ IF mailbox_deleted
       THEN /\ mailbox_deleted' = FALSE
            /\ todo' = ListLines(boxes, mailbox_from)
            /\ pc' = "for"
       ELSE pc' = "done" /\ UNCHANGED <<mailbox_deleted, todo>>
    /\ UNCHANGED <<server, selected, params, session, mbs, mb, mails_per_year, yi,
                   report, log, fails, snapshot>>

\* "for i in mailbox_list:" with the two tests that pass a line over
ImapCleanFor ==
    /\ cmd = "imap_clean" /\ pc = "for"
    /\ IF todo = <<>>
       THEN pc' = "while" /\ UNCHANGED <<mb, todo>>
       ELSE /\ mb' = Head(todo).name
            /\ todo' = Tail(todo)
            /\ pc' = IF ImapCleanSkips(Head(todo)) THEN "for" ELSE "select"
    /\ UNCHANGED <<server, selected, params, session, mbs, mails_per_year, yi, report,
                   log, fails, snapshot, mailbox_deleted>>

\* "res, [mail_count] = connection.select(mailbox_name)" and the test on the
\* count: in a dry run the flag is set though nothing is deleted
ImapCleanSelect ==
    /\ cmd = "imap_clean" /\ pc = "select"
    /\ selected' = mb
    /\ IF Len(boxes[mb]) = 0
       THEN IF ~dry_run
            THEN pc' = "delete" /\ UNCHANGED mailbox_deleted
            ELSE pc' = "for" /\ mailbox_deleted' = TRUE
       ELSE pc' = "for" /\ UNCHANGED mailbox_deleted
    /\ UNCHANGED <<server, params, session, mbs, todo, mb, mails_per_year, yi, report,
                   log, fails, snapshot>>

\* "connection.delete(mailbox_name)" and "mailbox_deleted = True"
ImapCleanDelete ==
    /\ cmd = "imap_clean" /\ pc = "delete"
    /\ \E st \in WithRefusal({"OK"}) :
         /\ boxes' = IF st = "OK" THEN SrvDelete(boxes, mb) ELSE boxes
         /\ fails' = Refused({"OK"}, st)
    /\ mailbox_deleted' = TRUE
    /\ pc' = "for"
    /\ UNCHANGED <<subscribed, selected, params, session, mbs, todo, mb,
                   mails_per_year, yi, report, log, snapshot>>

NextImapClean ==
    \/ ImapCleanStart
    \/ ImapCleanWhile
    \/ ImapCleanFor
    \/ ImapCleanSelect
    \/ ImapCleanDelete

\* clean of the package and imap_clean of the script, each run to its end:
\* the program is one sequential process that always takes its next step
InitCleaners == InitClean \/ InitImapClean

NextCleaners == NextClean \/ NextImapClean

SpecCleaners == InitCleaners /\ [][NextCleaners]_vars /\ WF_vars(NextCleaners)

-----------------------------------------------------------------------------
(* download, command_line.py *)

\* "m.fetch(m_id, '(BODY[])')"
BodyPart == "(BODY[])"

\* "filename = str(time.mktime(t)) + '.mail'": the name is the time of the
\* Date line, which for the messages of the model is their year
FileName(m) == m.date

\* "f = open(os.path.join(mail_folder, filename), 'wb'); f.write(...)": the
\* file is created, or truncated and written anew
WriteFile(fs, folder, name, uid) ==
    {f \in fs : ~(f.folder = folder /\ f.name = name)}
    \cup {[folder |-> folder, name |-> name, uid |-> uid]}

\* the messages of the subtree: seen or not, with a Date line of a year, with
\* no Date line, or with a Date line that cannot be parsed
DownloadKinds ==
    [seen : BOOLEAN, deleted : {FALSE}, date : {2019, 2021, NoDate, BadDate}]

\* download W: up to MaxDownloadMsgs messages over the mailboxes W and W.S
InitDownload ==
    /\ cmd = "download"
    /\ dry_run = FALSE /\ verbose = FALSE /\ omit = {} /\ year = 0
    /\ mailbox_from = W /\ mailbox_to = NoBox
    /\ \E ms \in SeqsUpTo(DownloadKinds, MaxDownloadMsgs) :
       \E k \in {j \in 0..Len(ms) : Len(ms) - j <= MaxSubMsgs} :
          boxes = (INBOX :> <<>>) @@ (W :> SubSeq(Stamp(ms, 0), 1, k))
                  @@ (WS :> SubSeq(Stamp(ms, 0), k + 1, Len(ms)))
    /\ boxes0 = boxes
    /\ Idle

\* "mbs = con.mailboxes(mailbox)" and the start of "for mb_name in sorted(mbs)"
DownloadList ==
    /\ cmd = "download" /\ pc = "start"
    /\ \E r \in Answers(boxes, mailbox_from, mailbox_list) :
         /\ mbs' = MailboxesOf(r)
         /\ todo' = Sorted(Keys(r))
    /\ log' = Append(log, Cmd("list", mailbox_from, "OK"))
    /\ pc' = "loop"
    /\ UNCHANGED <<server, selected, params, session, mb, mails_per_year, yi,
                   report, fails, snapshot, mailbox_deleted>>

\* the head of the loop over the mailboxes: "mail_count = m.select()" and, for
\* a mailbox with messages, "r, d = m.search('ALL')"; a search that is not
\* answered OK skips the mailbox
DownloadNext ==
    /\ cmd = "download" /\ pc = "loop"
    /\ IF todo = <<>>
       THEN pc' = "done" /\ UNCHANGED <<mb, todo, selected, log, fails, m_ids>>
       ELSE /\ mb' = Head(todo)
            /\ todo' = Tail(todo)
            /\ selected' = Head(todo)
            /\ IF Len(boxes[Head(todo)]) > 0
               THEN \E st \in WithRefusal({"OK"}) :
                      /\ log' = log \o <<Cmd("select", Head(todo), "OK")>>
                                    \o MailboxSelect(Head(todo))
                                    \o <<Cmd("search", Head(todo), st)>>
                      /\ fails' = Refused({"OK"}, st)
                      /\ m_ids' = IF st = "OK"
                                  THEN DecodeSplit(SrvSearch(boxes[Head(todo)], "ALL"))
                                  ELSE <<>>
                      /\ pc' = IF st = "OK" THEN "message" ELSE "loop"
               ELSE /\ log' = Append(log, Cmd("select", Head(todo), "OK"))
                    /\ pc' = "loop"
                    /\ UNCHANGED <<fails, m_ids>>
    /\ UNCHANGED <<server, args, inspecting, filename, files, listing, session, mbs,
                   mails_per_year, yi, report, snapshot, mailbox_deleted>>

\* one pass of "for m_id in ...": the header is fetched and its Date line sets
\* filename; a Date line that cannot be parsed ends the run, and so does the
\* read of filename when no Date line has set it yet in this run; then the
\* body is fetched and written to the file of that name
DownloadMessage ==
    /\ cmd = "download" /\ pc = "message"
    /\ IF m_ids = <<>>
       THEN /\ pc' = "loop"
            /\ UNCHANGED <<boxes, m_ids, filename, files, exit_code, log, fails>>
       ELSE LET id   == Head(m_ids)
                msg  == boxes[mb][id]
                head == MailboxSelect(mb) \o
                        <<Ev("fetch", mb, <<id>>, NoBox, "OK",
                             Denoted(boxes[mb], <<id>>), Denoted(boxes[mb], <<id>>))
                          @@ [part |-> HeaderPart]>>
            IN  IF msg.date = BadDate \/ (msg.date = NoDate /\ filename = Unbound)
                THEN /\ pc' = "exit"
                     /\ exit_code' = 1
                     /\ log' = log \o head
                     /\ UNCHANGED <<boxes, m_ids, filename, files, fails>>
                ELSE /\ filename' = IF msg.date = NoDate THEN filename
                                    ELSE FileName(msg)
                     /\ \E st \in WithRefusal({"OK"}) :
                          /\ log' = log \o head \o MailboxSelect(mb) \o
                                    <<Ev("fetch", mb, <<id>>, NoBox, st,
                                         Denoted(boxes[mb], <<id>>),
                                         Denoted(boxes[mb], <<id>>))
                                      @@ [part |-> BodyPart]>>
                          /\ fails' = Refused({"OK"}, st)
                          /\ IF st = "OK"
                             THEN /\ boxes' = SrvFetch(boxes, mb, <<id>>, BodyPart)
                                  /\ files' = WriteFile(files, mb, filename', msg.uid)
                                  /\ m_ids' = Tail(m_ids)
                                  /\ pc' = "message"
                                  /\ UNCHANGED exit_code
                             ELSE /\ pc' = "exit"
                                  /\ exit_code' = 1
                                  /\ UNCHANGED <<boxes, files, m_ids>>
    /\ UNCHANGED <<subscribed, selected, args, inspecting, listing, connect, host,
                   port, username, password, conn, capabilities, locals,
                   mailbox_deleted>>

NextDownload == DownloadList \/ DownloadNext \/ DownloadMessage

SpecDownload == InitDownload /\ [][NextDownload]_vars

-----------------------------------------------------------------------------
(* scan, command_line.py *)

\* the option --list-boxes-only of scan
ListBoxesOnly(c) == c = "scan -l"

\* "mbs = con.mailboxes(Mailbox.strip_path(mailbox))" and the start of
\* "for mb in sorted(mbs)"
ScanList ==
    /\ cmd \in {"scan", "scan -l"} /\ pc = "start"
    /\ \E r \in Answers(boxes, mailbox_from, mailbox_list) :
         /\ mbs' = MailboxesOf(r)
         /\ todo' = Sorted(Keys(r))
    /\ log' = Append(log, Cmd("list", mailbox_from, "OK"))
    /\ pc' = "loop"
    /\ UNCHANGED <<server, selected, inputs, mb, mails_per_year, yi, report, fails,
                   snapshot>>

\* the head of the loop over the mailboxes; with --list-boxes-only the name is
\* printed and nothing is asked of the server
ScanNext ==
    /\ cmd \in {"scan", "scan -l"} /\ pc = "loop"
    /\ IF todo = <<>>
       THEN pc' = "done" /\ UNCHANGED <<mb, todo, report>>
       ELSE /\ mb' = Head(todo)
            /\ todo' = Tail(todo)
            /\ IF ListBoxesOnly(cmd)
               THEN report' = Append(report, [src |-> Head(todo)]) /\ pc' = "loop"
               ELSE pc' = "inspect" /\ UNCHANGED report
    /\ UNCHANGED <<server, selected, inputs, mbs, mails_per_year, yi, log, fails,
                   snapshot>>

\* "mails_all, mails_seen, mails_deleted, mails_per_year = mbs[mb].inspect()"
\* and the line with the three counts
ScanInspect ==
    /\ cmd = "scan" /\ pc = "inspect"
    /\ selected' = mb
    /\ log' = log \o InspectLog(mb, boxes[mb])
    /\ report' = Append(report, [src     |-> mb,
                                 all     |-> Len(Inspect(boxes[mb]).all),
                                 seen    |-> Len(Inspect(boxes[mb]).seen),
                                 deleted |-> Len(Inspect(boxes[mb]).deleted)])
    /\ pc' = "loop"
    /\ UNCHANGED <<server, inputs, mbs, todo, mb, mails_per_year, yi, fails, snapshot>>

NextScan == ScanList \/ ScanNext \/ ScanInspect

-----------------------------------------------------------------------------
(* Mailbox.__init__, quote_path and strip_path on the characters of a name *)

MaxNameLen == 3

MaxPathLen == 4

Quote == "\""

Space == " "

\* the characters an unquoted mailbox name is made of, and those a name
\* between double quotes is made of: "(" and the space may stand only there
AtomChars == {"a"}

QuotedChars == {"a", "(", Space}

\* the names as a listing gives them: unquoted, or between double quotes
RawNames ==
    (SeqsUpTo(AtomChars, MaxNameLen) \ {<<>>})
    \cup {<<Quote>> \o c \o <<Quote>> : c \in SeqsUpTo(QuotedChars, MaxNameLen) \ {<<>>}}

\* a line of a listing: no flags, the delimiter ".", the name
ListingLine(raw) == <<"(", ")", Space, Quote, ".", Quote, Space>> \o raw

\* the group "name" of '\((?P<flags>.*?)\) "(?P<delimiter>.*)" (?P<name>.*)':
\* the delimiter is matched greedily, so the name is what follows the last
\* double quote and space of the line
NameGroup(line) ==
    LET ends == {i \in 1..(Len(line) - 1) : line[i] = Quote /\ line[i + 1] = Space}
        last == CHOOSE i \in ends : \A j \in ends : j <= i
    IN  SubSeq(line, last + 2, Len(line))

\* "self._name = mailbox" less one double quote at its end and then one at its
\* start
DisplayName(mailbox) ==
    LET t == IF mailbox # <<>> /\ mailbox[Len(mailbox)] = Quote
             THEN SubSeq(mailbox, 1, Len(mailbox) - 1) ELSE mailbox
    IN  IF t # <<>> /\ t[1] = Quote THEN Tail(t) ELSE t

\* Mailbox.__init__: path and name of the Mailbox of a line
MailboxOfLine(line) ==
    [path |-> NameGroup(line), name |-> DisplayName(NameGroup(line))]

\* Mailbox.quote_path
QuotePath(path) ==
    IF Space \notin SeqToSet(path) THEN path
    ELSE LET p1 == IF path[1] # Quote THEN <<Quote>> \o path ELSE path
         IN  IF p1[Len(p1)] # Quote THEN p1 \o <<Quote>> ELSE p1

RECURSIVE StripFront(_)
StripFront(p) == IF p # <<>> /\ p[1] = Quote THEN StripFront(Tail(p)) ELSE p

RECURSIVE StripBack(_)
StripBack(p) ==
    IF p # <<>> /\ p[Len(p)] = Quote THEN StripBack(SubSeq(p, 1, Len(p) - 1)) ELSE p

\* Mailbox.strip_path: the two while loops
StripPath(path) == StripBack(StripFront(path))

\* the mailbox the server takes the argument of a select for: what stands
\* between the double quotes of a quoted string, an unquoted name as it is;
\* imaplib sends the argument as it gets it.  NoBox for an argument that is
\* neither, which the server answers with BAD.
Selects(path) ==
    IF /\ Len(path) >= 2 /\ path[1] = Quote /\ path[Len(path)] = Quote
       /\ SeqToSet(SubSeq(path, 2, Len(path) - 1)) \subseteq QuotedChars
    THEN SubSeq(path, 2, Len(path) - 1)
    ELSE IF SeqToSet(path) \subseteq AtomChars THEN path ELSE NoBox

\* a line of a listing that is to be made a Mailbox and selected by its name,
\* or a path that is to be quoted, or stripped, twice
InitPath ==
    /\ cmd \in {"node", "quote_path", "strip_path"}
    /\ dry_run = FALSE /\ verbose = FALSE /\ omit = {} /\ year = 0
    /\ IF cmd = "node"
       THEN /\ mailbox_from = NoBox
            /\ \E raw \in RawNames : mailbox_list = <<ListingLine(raw)>>
       ELSE /\ mailbox_from \in SeqsUpTo({"a", Space, Quote}, MaxPathLen)
            /\ mailbox_list = <<>>
    /\ mailbox_to = NoBox
    /\ listed = <<>>
    /\ boxes = (INBOX :> <<>>)
    /\ boxes0 = boxes
    /\ FreshCommand /\ NotInspecting /\ NotDownloading /\ SessionUp
    /\ pc = "start"

\* "mb = Mailbox(self, m.decode())"
PathNode ==
    /\ cmd = "node" /\ pc = "start"
    /\ listed' = MailboxOfLine(mailbox_list[1])
    /\ pc' = "node"
    /\ UNCHANGED <<server, selected, args, inspecting, downloading, mailbox_list,
                   session, locals, log, fails, mailbox_deleted>>

\* "quote_path(...)" of the name of the Mailbox
PathRequote ==
    /\ cmd = "node" /\ pc = "node"
    /\ mailbox_to' = QuotePath(listed.name)
    /\ pc' = "quoted"
    /\ UNCHANGED <<server, selected, cmd, dry_run, verbose, omit, mailbox_from, year,
                   boxes0, inspecting, downloading, listing, session, locals, log,
                   fails, mailbox_deleted>>

\* a select of the path so made
PathSelect ==
    /\ cmd = "node" /\ pc = "quoted"
    /\ selected' = Selects(mailbox_to)
    /\ log' = Append(log, Cmd("select", mailbox_to,
                              IF Selects(mailbox_to) = NoBox THEN "BAD" ELSE "OK"))
    /\ pc' = "done"
    /\ UNCHANGED <<server, args, inspecting, downloading, listing, session, locals,
                   fails, mailbox_deleted>>

\* quote_path, or strip_path, of the path and then of what that gave; mb keeps
\* what the first call gave
PathTwice ==
    /\ cmd \in {"quote_path", "strip_path"} /\ pc \in {"start", "once"}
    /\ LET arg == IF pc = "start" THEN mailbox_from ELSE mailbox_to
       IN  mailbox_to' = IF cmd = "quote_path" THEN QuotePath(arg) ELSE StripPath(arg)
    /\ mb' = IF pc = "start" THEN mb ELSE mailbox_to
    /\ pc' = IF pc = "start" THEN "once" ELSE "twice"
    /\ UNCHANGED <<server, selected, cmd, dry_run, verbose, omit, mailbox_from, year,
                   boxes0, inspecting, downloading, listing, session, mbs, todo,
                   mails_per_year, yi, report, snapshot, log, fails, mailbox_deleted>>

NextPath == PathNode \/ PathRequote \/ PathSelect \/ PathTwice

SpecPath == InitPath /\ [][NextPath]_vars

-----------------------------------------------------------------------------
(* the four commands on a listing in an order of the server's *)

OrderTrees == {t \in SUBSET {W, WS, WT} : W \in t}

OrderCommands == {"scan", "scan -l", "move", "clean", "download"}

\* scan, move, clean or download of W: the mailboxes of a tree, each empty or
\* with one old seen message, and the order in which the server is going to
\* list them
InitOrder ==
    /\ cmd \in OrderCommands
    /\ dry_run = FALSE /\ verbose = FALSE /\ omit = {}
    /\ mailbox_from = W
    /\ mailbox_to = IF cmd = "move" THEN <<"A">> ELSE NoBox
    /\ year = IF cmd = "move" THEN 2023 ELSE 0
    /\ \E t \in OrderTrees : \E full \in SUBSET t :
          boxes = (INBOX :> <<>>) @@
                  [n \in t |-> IF n \in full
                               THEN Stamp(<<[seen |-> TRUE, deleted |-> FALSE,
                                             date |-> 2019]>>, 10 * Rank(n[Len(n)]))
                               ELSE <<>>]
    /\ boxes0 = boxes
    /\ FreshCommand /\ NotInspecting /\ NotDownloading /\ SessionUp
    /\ mailbox_list \in Responses(boxes, mailbox_from)
    /\ listed = <<>>
    /\ pc = "start"

NextOrder ==
    \/ NextScan
    \/ NextMove
    \/ NextClean
    \/ NextDownload

SpecOrder == InitOrder /\ [][NextOrder]_vars

-----------------------------------------------------------------------------
(* Connection.create_mailbox, called twice on one path *)

APath == <<"A", "2019", "W">>

\* the prefixes of APath
APrefixes == {SubSeq(APath, 1, k) : k \in 1..Len(APath)}

\* a server that holds any of the prefixes of the archive path already, and a
\* path that is one of them
InitCreate ==
    /\ cmd = "create_mailbox"
    /\ dry_run = FALSE /\ verbose = FALSE /\ omit = {} /\ year = 0
    /\ mailbox_from = W
    /\ mailbox_to \in APrefixes
    /\ \E have \in SUBSET APrefixes :
         boxes = [n \in {INBOX, W} \cup have |-> <<>>]
    /\ boxes0 = boxes
    /\ Fresh /\ SessionUp
    /\ pc = "call1"

\* "con.create_mailbox(path, delimiter)", the first and the second time
CreateCall ==
    /\ cmd = "create_mailbox" /\ pc \in {"call1", "call2"}
    /\ \E failAt \in 0..(IF fails < MaxFails THEN Len(mailbox_to) ELSE 0) :
         LET r == CreateMailbox([boxes |-> boxes, subscribed |-> subscribed,
                                 selected |-> selected, log |-> log,
                                 refused |-> FALSE], mailbox_to, 1, failAt)
         IN  /\ (failAt # 0) = r.refused
             /\ boxes' = r.boxes
             /\ subscribed' = r.subscribed
             /\ selected' = r.selected
             /\ log' = r.log
             /\ fails' = IF r.refused THEN fails + 1 ELSE fails
    /\ pc' = IF pc = "call1" THEN "call2" ELSE "done"
    /\ UNCHANGED <<inputs, mbs, todo, mb, mails_per_year, yi, report, snapshot>>

NextCreate == CreateCall

SpecCreate == InitCreate /\ [][NextCreate]_vars

-----------------------------------------------------------------------------
(* Mailbox.inspect, called on one mailbox *)

\* the messages of the mailbox: any flags, a Date line of one of the years, no
\* Date line, or a Date line that cannot be parsed
InspectKinds ==
    [seen : BOOLEAN, deleted : BOOLEAN, date : Years \cup {NoDate, BadDate}]

InitInspect ==
    /\ cmd = "inspect"
    /\ dry_run = FALSE /\ verbose = FALSE /\ omit = {} /\ year = 0
    /\ mailbox_from = W /\ mailbox_to = NoBox
    /\ \E ms \in SeqsUpTo(InspectKinds, MaxInspectMsgs) :
         boxes = (INBOX :> <<>>) @@ (W :> Stamp(ms, 0))
    /\ boxes0 = boxes
    /\ Idle

\* "mails_all, mails_seen, mails_deleted, mails_per_year = mbs[mb].inspect()"
InspectCall ==
    /\ cmd = "inspect" /\ pc = "start"
    /\ inspected' = Inspect(boxes[mailbox_from])
    /\ boxes' = SrvFetch(boxes, mailbox_from, Inspect(boxes[mailbox_from]).seen,
                         HeaderPart)
    /\ selected' = mailbox_from
    /\ log' = log \o InspectLog(mailbox_from, boxes[mailbox_from])
    /\ pc' = "done"
    /\ UNCHANGED <<subscribed, args, mails_seen, chunk_i, chunk_m, fetched,
                   downloading, listing, session, locals, fails, mailbox_deleted>>

NextInspect == InspectCall

SpecInspect == InitInspect /\ [][NextInspect]_vars

\* the batch loop of inspect on its own, over a seen list of any length up to
\* MaxSeenIds; the fetch of a batch is recorded, its answer is not modelled
InitChunks ==
    /\ cmd = "inspect"
    /\ dry_run = FALSE /\ verbose = FALSE /\ omit = {} /\ year = 0
    /\ mailbox_from = W /\ mailbox_to = NoBox
    /\ boxes = (INBOX :> <<>>) @@ (W :> <<>>)
    /\ boxes0 = boxes
    /\ FreshCommand /\ NotDownloading /\ NotListing /\ SessionUp
    /\ \E n \in 0..MaxSeenIds : mails_seen = [k \in 1..n |-> k]
    /\ inspected = NoMails /\ chunk_i = 0 /\ chunk_m = <<>> /\ fetched = <<>>
    /\ pc = "chunks"

\* "if len(mails_seen) > 0: i = 0; m = mails_seen[i:i + 1000]"
ChunkFirst ==
    /\ cmd = "inspect" /\ pc = "chunks"
    /\ IF Len(mails_seen) > 0
       THEN /\ chunk_i' = 0
            /\ chunk_m' = Slice(mails_seen, 0)
            /\ pc' = "while"
       ELSE pc' = "fetched" /\ UNCHANGED <<chunk_i, chunk_m>>
    /\ UNCHANGED <<server, selected, args, inspected, mails_seen, fetched,
                   downloading, listing, session, locals, log, fails,
                   mailbox_deleted>>

\* "while len(m) > 0:" with the fetch of m and the step to the next batch
ChunkWhile ==
    /\ cmd = "inspect" /\ pc = "while"
    /\ IF Len(chunk_m) > 0
       THEN /\ fetched' = Append(fetched, chunk_m)
            /\ chunk_i' = ChunkAdvance(chunk_i)
            /\ chunk_m' = Slice(mails_seen, chunk_i')
            /\ pc' = "while"
       ELSE pc' = "fetched" /\ UNCHANGED <<chunk_i, chunk_m, fetched>>
    /\ UNCHANGED <<server, selected, args, inspected, mails_seen,
                   downloading, listing, session, locals, log, fails,
                   mailbox_deleted>>

NextChunks == ChunkFirst \/ ChunkWhile

SpecChunks == InitChunks /\ [][NextChunks]_vars /\ WF_vars(NextChunks)

-----------------------------------------------------------------------------
(* Connection.mailboxes, called on one raw response *)

\* the flag lists of the entries: none, the two children flags, and each of
\* them next to another flag
FlagLists ==
    {{}, {"HasChildren"}, {"HasNoChildren"}, {"Marked"},
     {"Marked", "HasChildren"}, {"Noinferiors", "HasNoChildren"}}

RawEntries == {NoneEntry} \cup [flags : FlagLists, name : {W, WS, WT}]

\* a raw response: entries and None in any order, each mailbox named once
InitList ==
    /\ cmd = "mailboxes"
    /\ dry_run = FALSE /\ verbose = FALSE /\ omit = {} /\ year = 0
    /\ mailbox_from = W /\ mailbox_to = NoBox
    /\ boxes = (INBOX :> <<>>) @@ (W :> <<>>)
    /\ boxes0 = boxes
    /\ FreshCommand /\ NotInspecting /\ NotDownloading /\ SessionUp
    /\ mailbox_list \in SeqsUpTo(RawEntries, MaxListLen)
    /\ \A j, k \in 1..Len(mailbox_list) :
          (j # k /\ mailbox_list[j] # NoneEntry) =>
              mailbox_list[j].name # mailbox_list[k].name
    /\ listed = <<>>
    /\ pc = "start"

\* "mbs = {}; for m in mailbox_list: ...; return mbs"
ListCall ==
    /\ cmd = "mailboxes" /\ pc = "start"
    /\ listed' = MailboxesOf(mailbox_list)
    /\ log' = Append(log, Cmd("list", mailbox_from, "OK"))
    /\ pc' = "done"
    /\ UNCHANGED <<server, selected, args, inspecting, downloading, mailbox_list,
                   session, locals, fails, mailbox_deleted>>

NextList == ListCall

SpecList == InitList /\ [][NextList]_vars

-----------------------------------------------------------------------------
(* The start of a run: Connection.parse and Connection.__init__ *)

\* where a run goes when login has failed: "sys.exit(1)"
AfterLoginFailureGoOn == "start"

AfterLoginFailure == "exit"

\* "host, port, username, password = Connection.parse(connect)"
ParseConnect ==
    /\ pc = "parse"
    /\ LET r == Parse(connect)
       IN  IF r.exit = 1
           THEN /\ pc' = "exit" /\ exit_code' = 1
                /\ UNCHANGED <<host, port, username, password>>
           ELSE /\ host' = r.host /\ port' = r.port
                /\ username' = r.username /\ password' = r.password
                /\ pc' = IF r.ask THEN "getpass" ELSE "establish"
                /\ UNCHANGED exit_code
    /\ UNCHANGED <<connect, conn, capabilities, command, params, log>>

\* "password = getpass.getpass(...)": what the user types
GetPass ==
    /\ pc = "getpass"
    /\ password' \in {<<>>, <<"a">>}
    /\ pc' = "establish"
    /\ UNCHANGED <<connect, host, port, username, conn, capabilities, exit_code,
                   command, params, log>>

\* Connection.establish: "imaplib.IMAP4(host, port)" raises or returns
Establish ==
    /\ pc = "establish"
    /\ \E st \in {"OK", "ERR"} :
         /\ log' = Append(log, Cmd("connect", NoBox, st))
         /\ IF st = "OK"
            THEN conn' = "open" /\ pc' = "capability" /\ UNCHANGED exit_code
            ELSE conn' = "none" /\ pc' = "exit" /\ exit_code' = 1
    /\ UNCHANGED <<connect, host, port, username, password, capabilities, command,
                   params>>

\* a setup that never upgrades to TLS
AfterCapabilityPlain(caps) == "login"

\* "if 'STARTTLS' in self.capabilities: self._connection.starttls()"
AfterCapability(caps) == IF Cap("", "STARTTLS") \in caps THEN "starttls" ELSE "login"

\* "res, caps = self._connection.capability()": the answer is OK with a line
\* of capabilities, OK without data, NO, or the call raises
Capability ==
    /\ pc = "capability"
    /\ \E st \in {"OK", "NODATA", "NO", "ERR"} :
         /\ log' = Append(log, Cmd("capability", NoBox, st))
         /\ IF st = "OK"
            THEN /\ capabilities' \in SUBSET Caps
                 /\ pc' = AfterCapability(capabilities')
                 /\ UNCHANGED exit_code
            ELSE pc' = "exit" /\ exit_code' = 1 /\ UNCHANGED capabilities
    /\ UNCHANGED <<connect, host, port, username, password, conn, command, params>>

\* "self._connection.starttls()", which raises when the server does not agree
Starttls ==
    /\ pc = "starttls"
    /\ \E st \in {"OK", "ERR"} :
         /\ log' = Append(log, Cmd("starttls", NoBox, st))
         /\ IF st = "OK"
            THEN pc' = "login" /\ UNCHANGED exit_code
            ELSE pc' = "exit" /\ exit_code' = 1
    /\ UNCHANGED <<connect, host, port, username, password, conn, capabilities,
                   command, params>>

\* Connection.login: imaplib raises when the server answers NO to the login
Login ==
    /\ pc = "login"
    /\ LET call == LoginCall(PickAuthMethods(capabilities))
       IN  IF call = "none"
           THEN pc' = "exit" /\ exit_code' = 1 /\ UNCHANGED <<conn, log>>
           ELSE \E st \in {"OK", "NO"} :
                  /\ log' = Append(log, Cmd(call, NoBox, st))
                  /\ IF st = "OK"
                     THEN conn' = "auth" /\ pc' = "start" /\ UNCHANGED exit_code
                     ELSE /\ pc' = AfterLoginFailure /\ exit_code' = 1
                          /\ UNCHANGED conn
    /\ UNCHANGED <<connect, host, port, username, password, capabilities, command,
                   params>>

NextConnect ==
    \/ ParseConnect
    \/ GetPass
    \/ Establish
    \/ Capability
    \/ Starttls
    \/ Login

\* nothing is parsed and nothing is connected
SessionDown ==
    /\ host = <<>> /\ port = NoPort /\ username = <<>> /\ password = <<>>
    /\ conn = "none" /\ capabilities = {} /\ exit_code = 0

\* clean W with any connection string of up to MaxConnLen characters
InitConnect ==
    /\ connect \in SeqsUpTo(Chars, MaxConnLen)
    /\ SessionDown
    /\ cmd = "clean" /\ dry_run = FALSE /\ verbose = FALSE /\ omit = {}
    /\ mailbox_from = W /\ mailbox_to = NoBox /\ year = 0
    /\ boxes = (INBOX :> <<>>) @@ (W :> <<>>)
    /\ boxes0 = boxes
    /\ Fresh
    /\ pc = "parse"

SpecConnect == InitConnect /\ [][NextConnect]_vars

\* a whole run, from the connection string to the end of the command: a live
\* move of one old seen message, or a live clean of two empty mailboxes
InitRun ==
    /\ connect \in {ConnectUp, <<"a", "@", "a">>}
    /\ SessionDown
    /\ dry_run = FALSE /\ verbose = FALSE /\ omit = {} /\ mailbox_from = W
    /\ \/ /\ cmd = "move" /\ mailbox_to = <<"A">> /\ year = 2023
          /\ boxes = (INBOX :> <<>>)
                      @@ (W :> Stamp(<<[seen |-> TRUE, deleted |-> FALSE, date |-> 2019]>>, 0))
       \/ /\ cmd = "clean" /\ mailbox_to = NoBox /\ year = 0
          /\ boxes = (INBOX :> <<>>) @@ (W :> <<>>) @@ (WS :> <<>>)
    /\ boxes0 = boxes
    /\ Fresh
    /\ pc = "parse"

NextRun ==
    \/ NextConnect
    \/ NextMove
    \/ NextClean

SpecRun == InitRun /\ [][NextRun]_vars

-----------------------------------------------------------------------------
(* Either command *)

Init == InitMove \/ InitClean

Next == NextMove \/ NextClean

Spec == Init /\ [][Next]_vars

-----------------------------------------------------------------------------
(* What the claims speak of *)

\* the mailboxes of the source subtree when the command started
SourceBoxes == {n \in DOMAIN boxes0 : IsPrefix(mailbox_from, n)}

\* the archive mailboxes: the mailboxes below the target root
ArchiveBoxes == {n \in DOMAIN boxes : IsPrefix(mailbox_to, n)}

InArchive(u) == \E n \in ArchiveBoxes : u \in Uids(boxes[n])

\* the message with uid u of the source mailbox n when the command started
Msg0(n, u) == boxes0[n][CHOOSE i \in 1..Len(boxes0[n]) : boxes0[n][i].uid = u]

\* the message with uid u in mailbox n now
MsgNow(n, u) == boxes[n][CHOOSE i \in 1..Len(boxes[n]) : boxes[n][i].uid = u]

Mutating == {"create", "subscribe", "copy", "store", "expunge", "delete"}

\* the last copy issued before position j of the log (0 when there is none)
LastCopyBefore(j) ==
    IF \E i \in 1..(j - 1) : log[i].op = "copy"
    THEN CHOOSE i \in 1..(j - 1) :
            log[i].op = "copy" /\ \A k \in (i + 1)..(j - 1) : log[k].op # "copy"
    ELSE 0

\* no command of the run was answered other than OK (the select by which
\* create_mailbox probes for a mailbox apart), and the run reached its end
CleanRun ==
    /\ pc = "done"
    /\ fails = 0
    /\ \A j \in 1..Len(log) : log[j].op \in Mutating => log[j].st = "OK"

LiveMoveDone == cmd = "move" /\ ~dry_run /\ CleanRun

\* the uids of the messages of box that satisfy P
UidsWhere(box, P(_)) == {box[i].uid : i \in {j \in 1..Len(box) : P(box[j])}}

ContentOf(b, n) == IF n \in DOMAIN b THEN b[n] ELSE <<>>

-----------------------------------------------------------------------------
(* C1 .. C10 *)

\* C1: during a live move every message that was in a source mailbox when the
\* move started is, at every later point of the run, in its source mailbox or
\* in an archive mailbox.
C1_NoMessageLost ==
    (cmd = "move" /\ ~dry_run) =>
        \A n \in SourceBoxes : \A u \in Uids(boxes0[n]) :
            u \in Uids(boxes[n]) \/ InArchive(u)

\* C2: in move a store is issued only after the copy of the same bucket has
\* returned OK, and after a copy that did not return OK no store and no
\* expunge is issued for its messages.
C2_StoreOnlyAfterCopyOK ==
    cmd = "move" =>
        \A j \in 1..Len(log) :
            log[j].op \in {"store", "expunge"} =>
                /\ LastCopyBefore(j) # 0
                /\ log[LastCopyBefore(j)].st = "OK"
                /\ log[j].op = "store" => log[LastCopyBefore(j)].ids = log[j].ids

\* C3: within one live move no copy and no store on a mailbox follows an
\* expunge of that mailbox.
C3_ExpungeAfterAllBuckets ==
    cmd = "move" =>
        \A i, j \in 1..Len(log) :
            (i < j /\ log[i].op = "expunge" /\ log[j].op \in {"copy", "store"})
                => log[i].box # log[j].box

\* C4: every message id move passes to copy or store denotes, when the command
\* is issued, the message it denoted when inspect returned it.
C4_IdsStillDenote ==
    cmd = "move" =>
        \A j \in 1..Len(log) :
            log[j].op \in {"copy", "store"} => log[j].got = log[j].want

\* C5: a live move never copies to an archive, flags \Deleted or expunges a
\* message that was unseen in its source mailbox when the move started.
C5_UnseenUntouched ==
    (cmd = "move" /\ ~dry_run) =>
        \A n \in SourceBoxes : \A u \in UidsWhere(boxes0[n], LAMBDA m : ~m.seen) :
            /\ ~InArchive(u)
            /\ u \in Uids(boxes[n])
            /\ MsgNow(n, u).deleted = Msg0(n, u).deleted

\* C6: after a live move with cutoff year C in which no command failed, the
\* archive of year Y < C of a source mailbox M holds exactly the seen messages
\* of M whose Date year is Y, and M retains exactly its messages that are
\* unseen, have a Date year >= C or have no parsable Date.
C6_MoveResult ==
    LiveMoveDone =>
        \A n \in SourceBoxes \ omit :
            /\ \A y \in {z \in Years : z < year} :
                 Uids(ContentOf(boxes, ArchiveMailbox(mailbox_to, y, n)))
                   = UidsWhere(boxes0[n], LAMBDA m : m.seen /\ m.date = y)
            /\ Uids(boxes[n])
                 = UidsWhere(boxes0[n],
                             LAMBDA m : ~m.seen \/ m.date = NoDate \/ m.date >= year)

C8_DryRunCleanFrame ==
    (cmd = "clean" /\ dry_run) => boxes = boxes0


\* what move writes for the mailbox n whose buckets are mpy: one entry for each
\* old bucket, in the order of the buckets
RECURSIVE BucketEntries(_, _)
BucketEntries(n, mpy) ==
    IF mpy = <<>> THEN <<>>
    ELSE (IF IsOld(Head(mpy).y, year)
          THEN <<[src |-> n, dst |-> ArchiveMailbox(mailbox_to, Head(mpy).y, n),
                  quoted |-> Quoted(ArchiveMailbox(mailbox_to, Head(mpy).y, n)),
                  n |-> Len(Head(mpy).ids)]>>
          ELSE <<>>) \o BucketEntries(n, Tail(mpy))

\* what a move over the mailboxes ns of the server b0 writes when every mailbox
\* is inspected as b0 has it
RECURSIVE MoveEntries(_, _)
MoveEntries(b0, ns) ==
    IF ns = <<>> THEN <<>>
    ELSE (IF Head(ns) \in omit THEN <<>>
          ELSE BucketEntries(Head(ns), Inspect(b0[Head(ns)]).per_year))
         \o MoveEntries(b0, Tail(ns))

\* the mailboxes of the subtree that are without children and, once expunged,
\* without messages
Prunable(b0) ==
    {n \in SourceBoxes : ~HasChildren(b0, n) /\ Len(SrvExpunge(b0, n)[n]) = 0}

Ended == pc \in {"done", "error"} /\ fails = 0

\* C9: for the same initial server state a dry run reports what a live run
\* does: move writes the same (source, archive, count) entries dry and live,
\* and a dry-run clean reports for removal the mailboxes a live clean deletes.
C9_DryRunSameReport ==
    /\ (cmd = "move" /\ Ended) =>
          report = MoveEntries(boxes0, SortedNames(SourceBoxes))
    /\ (cmd = "clean" /\ Ended /\ dry_run) =>
          {report[i].src : i \in 1..Len(report)} = Prunable(boxes0)
    /\ (cmd = "clean" /\ Ended /\ ~dry_run) =>
          DOMAIN boxes0 \ DOMAIN boxes = Prunable(boxes0)

\* C10: clean deletes a mailbox only if its listing flags hold no HasChildren
\* and select reported zero messages for it, and every mailbox of the subtree
\* that has children or at least one message still exists after clean.
C10_CleanKeepsNonEmpty ==
    cmd = "clean" =>
        /\ pc = "delete" => ~mbs[mb].children /\ Len(boxes[mb]) = 0
        /\ \A n \in SourceBoxes :
             (HasChildren(boxes0, n) \/ Len(boxes0[n]) >= 1) => n \in DOMAIN boxes

-----------------------------------------------------------------------------
(* C11 .. C20 *)

\* a mailbox below the top of the tree: its name holds the delimiter
BelowRoot(n) == Len(n) > 1

\* C11: a live clean iterates to a fixed point: when it returns, no mailbox
\* below the root of the subtree is both without children and without
\* messages (a parent left childless and empty by the deletion of its last
\* child is deleted in the same run).
C11_CleanFixedPoint ==
    (cmd = "clean" /\ ~dry_run /\ CleanRun) =>
        \A n \in DOMAIN boxes :
            (IsPrefix(mailbox_from, n) /\ BelowRoot(n)) =>
                ~(~HasChildren(boxes, n) /\ Len(boxes[n]) = 0)

\* C13: clean never deletes a mailbox whose name holds no hierarchy delimiter
\* (the root mailbox itself), also when it is childless and empty.
C13_RootNeverDeleted ==
    cmd = "clean" =>
        \A n \in DOMAIN boxes0 : ~BelowRoot(n) => n \in DOMAIN boxes

SessionOps == {"connect", "capability", "starttls", "login", "login_cram_md5"}

\* the capability list advertises the authentication method m
Advertised(m) == Cap("AUTH=", m) \in capabilities

\* C16: login authenticates with CRAM-MD5 when the capability list advertises
\* it (also when plaintext login is advertised too), otherwise with plaintext
\* login when that is advertised, and otherwise issues no login command and
\* ends the run with exit code 1.
C16_LoginChoice ==
    [][pc = "login" =>
         IF Advertised("CRAM-MD5")
         THEN log' = Append(log, Cmd("login_cram_md5", NoBox, log'[Len(log')].st))
         ELSE IF Advertised("PLAIN")
         THEN log' = Append(log, Cmd("login", NoBox, log'[Len(log')].st))
         ELSE log' = log /\ pc' = "exit" /\ exit_code' = 1]_vars

\* both methods were advertised and the run has logged in with CRAM-MD5
C16_Witness ==
    /\ pc = "start" /\ conn = "auth"
    /\ Advertised("CRAM-MD5") /\ Advertised("PLAIN")
    /\ log[Len(log)].op = "login_cram_md5"

\* C17: when connecting, the capability query or the login fails, the run ends
\* with exit code 1: the failed step is the last thing issued (no retry and no
\* IMAP command follows) and nothing but the steps of the session setup came
\* before it.
C17_FailedSessionExits ==
    \A j \in 1..Len(log) :
        (log[j].op \in SessionOps /\ log[j].st # "OK") =>
            /\ j = Len(log)
            /\ pc = "exit" /\ exit_code = 1
            /\ \A i \in 1..j : log[i].op \in SessionOps

\* the server has refused the login of a run and the run has ended
C17_Witness ==
    /\ pc = "exit" /\ exit_code = 1
    /\ Len(log) >= 3
    /\ log[Len(log)].op \in {"login", "login_cram_md5"} /\ log[Len(log)].st = "NO"

\* the position of the last c in s, 0 when s has none
LastIdx(s, c) ==
    IF \E i \in 1..Len(s) : s[i] = c
    THEN CHOOSE i \in 1..Len(s) : s[i] = c /\ \A j \in (i + 1)..Len(s) : s[j] # c
    ELSE 0

\* s before its last c (the whole of s when it has none), and s after it
BeforeLast(s, c) == IF LastIdx(s, c) = 0 THEN s ELSE SubSeq(s, 1, LastIdx(s, c) - 1)
AfterLast(s, c) == SubSeq(s, LastIdx(s, c) + 1, Len(s))

\* the two sides of the last '@' of a connection string
CredPart(c) == BeforeLast(c, "@")
HostPart(c) == AfterLast(c, "@")

\* the string was parsed and the run went on
Parsed == pc # "parse" /\ ~(pc = "exit" /\ log = <<>>)

\* C18: Connection.parse splits at the last '@' and on each side at the last
\* ':': the host is the host part before its last ':', the username the
\* credential part before its last ':', and the port and the password are what
\* follows those last ':'.
C18_ParseSplitsAtLast ==
    Parsed =>
        /\ host = BeforeLast(HostPart(connect), ":")
        /\ username = BeforeLast(CredPart(connect), ":")
        /\ LastIdx(HostPart(connect), ":") # 0 =>
              port = ToInt(AfterLast(HostPart(connect), ":"))
        /\ LastIdx(CredPart(connect), ":") # 0 =>
              password = AfterLast(CredPart(connect), ":")

\* the connection string has no '@', or an empty host, or an empty user
NoHostOrUser(c) ==
    \/ LastIdx(c, "@") = 0
    \/ BeforeLast(HostPart(c), ":") = <<>>
    \/ BeforeLast(CredPart(c), ":") = <<>>

\* C19: a connection string with a missing or empty host, or a missing or
\* empty user, is a fatal parse error: the run ends with exit code 1 before
\* anything is connected.
C19_NoHostOrUserIsFatal ==
    (NoHostOrUser(connect) /\ pc # "parse") =>
        pc = "exit" /\ exit_code = 1 /\ log = <<>>

\* C12: clean terminates on every finite mailbox tree, in a live run and in a
\* dry run, also when the subtree holds an empty childless mailbox that the
\* dry run does not delete: every run reaches its end.
C12_CleanTerminates == <>(pc \in {"done", "error"})

\* the commands that act on the selected mailbox
ScopedOps == {"search", "fetch", "copy", "store", "expunge"}

FatalOps == {"list", "search", "fetch", "create", "delete"}

\* C15: a non-OK status returned by list, search, fetch, create or delete is
\* fatal for the operation that issued it: the run stops with an error and
\* issues no further command (a failed create is not followed by copy, store
\* or expunge).
C15_NonOkIsFatal ==
    \A j \in 1..Len(log) :
        (log[j].op \in FatalOps /\ log[j].st # "OK") =>
            /\ j = Len(log)
            /\ pc = "error"

\* C20: move never inspects, copies from, flags or expunges a mailbox whose
\* name equals an entry of the omit list, and the match is exact: a mailbox
\* whose name differs from every entry, also by case only or by lying below an
\* omitted mailbox, is inspected.
C20_OmitExact ==
    cmd = "move" =>
        /\ \A j \in 1..Len(log) : log[j].op \in ScopedOps => log[j].box \notin omit
        /\ pc = "done" =>
             \A n \in SourceBoxes \ omit :
                 \E j \in 1..Len(log) : log[j].op = "search" /\ log[j].box = n

\* W and 'W.s' were omitted and the run has copied from W.S
C20_Witness ==
    /\ cmd = "move" /\ pc = "done"
    /\ W \in omit /\ WS \notin omit
    /\ \E j \in 1..Len(log) : log[j].op = "copy" /\ log[j].box = WS

-----------------------------------------------------------------------------
(* C21 .. C30 *)

\* the steps of the session setup in the log, in the order they were issued
SetupSteps == SelectSeq(log, LAMBDA e : e.op \in SessionOps)

\* the setup of a session with the capability list caps, up to the login
SetupOrder(caps) ==
    <<"connect", "capability">>
    \o (IF Cap("", "STARTTLS") \in caps THEN <<"starttls">> ELSE <<>>)
    \o <<LoginCall(PickAuthMethods(caps))>>

\* C22: the connection setup issues connect, capability, STARTTLS (if and only
\* if STARTTLS is in the capability list) and login in this order, and queries
\* the capabilities once: the login is the one chosen from the list received
\* before the TLS upgrade.
C22_SetupOrder ==
    /\ \A k \in 1..Len(SetupSteps) :
          /\ k <= 2 => SetupSteps[k].op = <<"connect", "capability">>[k]
          /\ k > 2 => /\ k <= Len(SetupOrder(capabilities))
                      /\ SetupSteps[k].op = SetupOrder(capabilities)[k]
    /\ conn = "auth" =>
          [k \in 1..Len(SetupSteps) |-> SetupSteps[k].op] = SetupOrder(capabilities)

\* a session was upgraded to TLS and then logged in
C22_Witness ==
    /\ conn = "auth" /\ pc = "start"
    /\ Cap("", "STARTTLS") \in capabilities
    /\ Len(SetupSteps) = 4 /\ SetupSteps[3].op = "starttls"

\* the commands a step appends to the log
Issued == SubSeq(log', Len(log) + 1, Len(log'))

\* the mailboxes the selects of a step name, in the order of the selects
SelectedBy(new) ==
    LET sel == SelectSeq(new, LAMBDA e : e.op = "select")
    IN  [k \in 1..Len(sel) |-> sel[k].box]

\* C23: create_mailbox goes through the prefixes of the path from the shortest
\* to the longest; it selects each prefix, issues create only if that select
\* returned NO, and then subscribes it.  Called a second time on the same
\* path, after a first call the server carried out, it issues no create and
\* leaves the set of mailboxes as it is.
C23_CreateMailboxTwice ==
    [][(cmd = "create_mailbox" /\ pc \in {"call1", "call2"}) =>
         /\ SelectedBy(Issued) = [k \in 1..Len(mailbox_to) |-> SubSeq(mailbox_to, 1, k)]
         /\ \A i \in 1..Len(Issued) :
              /\ Issued[i].op = "select" =>
                    /\ i < Len(Issued)
                    /\ Issued[i + 1].box = Issued[i].box
                    /\ Issued[i + 1].op = IF Issued[i].st = "NO" THEN "create"
                                          ELSE "subscribe"
              /\ Issued[i].op = "create" =>
                    /\ i < Len(Issued)
                    /\ Issued[i + 1].box = Issued[i].box
                    /\ Issued[i + 1].op = "subscribe"
              /\ Issued[i].op = "subscribe" =>
                    (i < Len(Issued) => Issued[i + 1].op = "select")
         /\ (pc = "call2" /\ fails = 0) =>
              /\ \A i \in 1..Len(Issued) : Issued[i].op # "create"
              /\ DOMAIN boxes' = DOMAIN boxes
              /\ pc' = "done"]_vars

\* both calls were made, the first one created all three mailboxes of the path
C23_Witness ==
    /\ cmd = "create_mailbox" /\ pc = "done" /\ fails = 0
    /\ mailbox_to = APath
    /\ Len(SelectSeq(log, LAMBDA e : e.op = "create")) = 3
    /\ Len(SelectSeq(log, LAMBDA e : e.op = "select" /\ e.st = "OK")) = 3

\* an inspect has returned
Inspected == cmd = "inspect" /\ pc = "done"

\* the mailbox inspect was called on, as it was before the call
Box0 == boxes0[mailbox_from]

\* the ids of the bucket of year y
Bucket(y) ==
    LET b == SelectSeq(inspected.per_year, LAMBDA e : e.y = y)
    IN  IF b = <<>> THEN <<>> ELSE b[1].ids

\* how often id occurs in the buckets
RECURSIVE Occurrences(_, _)
Occurrences(mpy, id) ==
    IF mpy = <<>> THEN 0
    ELSE Len(SelectSeq(Head(mpy).ids, LAMBDA x : x = id)) + Occurrences(Tail(mpy), id)

\* C24: inspect places a seen message whose Date header parses to year Y in
\* bucket Y and in no other bucket; every id in a bucket occurs exactly once
\* over all buckets, and a message with an unparsable Date occurs in no bucket.
C24_OneBucket ==
    Inspected =>
        /\ \A k \in 1..Len(inspected.per_year) :
             \A j \in 1..Len(inspected.per_year) :
                inspected.per_year[k].y = inspected.per_year[j].y => k = j
        /\ \A id \in 1..Len(Box0) :
             /\ (Box0[id].seen /\ Box0[id].date \in Years) =>
                   /\ id \in SeqToSet(Bucket(Box0[id].date))
                   /\ Occurrences(inspected.per_year, id) = 1
             /\ Box0[id].date = BadDate => Occurrences(inspected.per_year, id) = 0
        /\ \A k \in 1..Len(inspected.per_year) :
             \A id \in SeqToSet(inspected.per_year[k].ids) :
                Occurrences(inspected.per_year, id) = 1

\* two seen messages of one year, a seen one of another year and no fourth:
\* two buckets
C24_Witness ==
    /\ Inspected
    /\ Len(inspected.per_year) = 2
    /\ \E k \in 1..2 : Len(inspected.per_year[k].ids) = 2

\* C25: a seen message whose Date header is missing or cannot be parsed is in
\* no bucket, inspect has written a warning for it, and the other messages of
\* the mailbox are in their buckets all the same.
C25_NoDateWarned ==
    Inspected =>
        \A id \in 1..Len(Box0) :
            /\ (Box0[id].seen /\ Box0[id].date \in {NoDate, BadDate}) =>
                  /\ Occurrences(inspected.per_year, id) = 0
                  /\ id \in SeqToSet(inspected.warned)
            /\ (Box0[id].seen /\ Box0[id].date \in Years) =>
                  id \in SeqToSet(Bucket(Box0[id].date))

\* the parts of the header fetches inspect has issued
FetchedParts ==
    {log[j].part : j \in {k \in 1..Len(log) : log[k].op = "fetch"}}

C28_Snapshot ==
    Inspected =>
        /\ \A k \in 1..Len(inspected.per_year) :
             SeqToSet(inspected.per_year[k].ids) \subseteq SeqToSet(inspected.seen)
        /\ SeqToSet(inspected.seen) \subseteq SeqToSet(inspected.all)
        /\ SeqToSet(inspected.deleted) \subseteq SeqToSet(inspected.all)
        /\ inspected.all = SrvSearch(Box0, "ALL")
        /\ inspected.seen = SrvSearch(Box0, "SEEN")
        /\ inspected.deleted = SrvSearch(Box0, "DELETED")
        /\ Len(Box0) = 0 => inspected.all = <<>>
        /\ (\A id \in 1..Len(Box0) : ~Box0[id].seen) => inspected.seen = <<>>
        /\ (\A id \in 1..Len(Box0) : ~Box0[id].deleted) => inspected.deleted = <<>>

\* an inspect of a mailbox with messages of which none is deleted and one is in
\* a bucket
C28_Witness ==
    /\ Inspected
    /\ inspected.deleted = <<>>
    /\ inspected.per_year # <<>>
    /\ Len(inspected.all) > Len(inspected.seen)

\* the batches fetched so far, one after the other
RECURSIVE Concat(_)
Concat(cs) == IF cs = <<>> THEN <<>> ELSE Head(cs) \o Concat(Tail(cs))

\* C26: the batches inspect fetches hold at most 1000 ids each and, one after
\* the other, are the seen list: the same ids in the same order, each once; and
\* the batch loop comes to its end for every length of the list.
C26_Batches ==
    /\ [](pc \in {"while", "fetched"} =>
            /\ \A k \in 1..Len(fetched) :
                  Len(fetched[k]) >= 1 /\ Len(fetched[k]) <= 1000
            /\ Len(Concat(fetched)) <= Len(mails_seen)
            /\ Concat(fetched) = SubSeq(mails_seen, 1, Len(Concat(fetched))))
    /\ [](pc = "fetched" => Concat(fetched) = mails_seen)
    /\ <>(pc = "fetched")

\* the loop has ended on a list of 1001 ids, fetched in two batches
C26_Witness ==
    /\ pc = "fetched"
    /\ Len(mails_seen) = 1001
    /\ Len(fetched) = 2 /\ Len(fetched[2]) = 1

\* the entries of the raw response that are not None
SomeEntries ==
    {k \in 1..Len(mailbox_list) : mailbox_list[k] # NoneEntry}

\* C30: the listing passes over every None of the raw response and yields one
\* node for each other entry; the node's children flag is set if and only if
\* HasChildren occurs in the entry's flags: not for HasNoChildren, not for no
\* flags, and also for HasChildren next to another flag.
C30_Listing ==
    (cmd = "mailboxes" /\ pc = "done") =>
        /\ DOMAIN listed = {mailbox_list[k].name : k \in SomeEntries}
        /\ Cardinality(DOMAIN listed) = Cardinality(SomeEntries)
        /\ \A k \in SomeEntries :
             LET e == mailbox_list[k]
             IN  /\ listed[e.name].path = e.name
                 /\ listed[e.name].children <=>
                       \E f \in e.flags :
                           IsInfix(<<"Has", "Children">>, FlagPieces(f))
                 /\ e.flags = {} => ~listed[e.name].children
                 /\ e.flags = {"HasNoChildren"} => ~listed[e.name].children
                 /\ e.flags = {"Marked", "HasChildren"} => listed[e.name].children

\* a response with a None between an entry with \HasNoChildren and an entry
\* with \HasChildren next to another flag
C30_Witness ==
    /\ cmd = "mailboxes" /\ pc = "done"
    /\ Len(mailbox_list) = 3 /\ mailbox_list[2] = NoneEntry
    /\ mailbox_list[1].flags = {"HasNoChildren"}
    /\ mailbox_list[3].flags = {"Marked", "HasChildren"}
    /\ Cardinality(DOMAIN listed) = 2

\* the archive mailbox the claim names for the bucket of year y of mailbox n
PathOf(y, n) == mailbox_to \o <<YearStr(y)>> \o n

\* the years of the seen messages of mailbox n at the start
YearsOf(n) ==
    {boxes0[n][i].date : i \in {j \in 1..Len(boxes0[n]) : boxes0[n][j].seen}}
    \cap Years

\* the copy commands issued so far
Copies == SelectSeq(log, LAMBDA e : e.op = "copy")

Undated ==
    UNION {{boxes0[n][i].uid : i \in {j \in 1..Len(boxes0[n]) :
                                         boxes0[n][j].date \notin Years}}
           : n \in {W, WS}}

\* C21: in download a message from whose header no Date can be derived, be it
\* the first or a later message of the run, makes the run fatal: the body of
\* such a message is written to no file, and a run over such a message does not
\* come to its end but exits with an error.
C21_UndatedIsFatal ==
    cmd = "download" =>
        /\ \A f \in files : f.uid \notin Undated
        /\ (pc = "done" /\ fails = 0) => Undated = {}
        /\ pc = "exit" => exit_code # 0

-----------------------------------------------------------------------------
(* C31 .. C39 *)

\* the files download has written below the folder of mailbox n
FilesOf(n) == {f \in files : f.folder = n}

\* C39: download never writes two messages to one local file: when it has come
\* to its end, each mailbox has as many files as it has messages, also when two
\* messages carry the same Date and when a message has no Date line.
C39_OneFilePerMessage ==
    (cmd = "download" /\ pc = "done" /\ fails = 0) =>
        \A n \in {W, WS} : Cardinality(FilesOf(n)) = Len(boxes0[n])

\* a message that move is to archive: seen, with a Date of a year below the
\* cutoff
OldSeen(m) == m.seen /\ m.date \in Years /\ m.date < year

\* C33: a live move removes from a source mailbox only messages it has copied
\* to an archive mailbox in this run: a message that is gone from its source
\* mailbox is in an archive mailbox, and a message that carried \Deleted before
\* the move started and is not an old seen message is still in its source
\* mailbox.
C33_RemovesOnlyCopied ==
    (cmd = "move" /\ ~dry_run /\ fails = 0) =>
        \A n \in SourceBoxes : \A i \in 1..Len(boxes0[n]) :
            /\ boxes0[n][i].uid \notin Uids(boxes[n]) => InArchive(boxes0[n][i].uid)
            /\ (boxes0[n][i].deleted /\ ~OldSeen(boxes0[n][i])) =>
                  boxes0[n][i].uid \in Uids(boxes[n])

\* the places (mailbox, position) of the server state b, among the mailboxes
\* ns, that hold the message with uid u
PlacesOf(b, ns, u) ==
    {p \in UNION {{<<n, i>> : i \in 1..Len(b[n])} : n \in ns \cap DOMAIN b} :
        b[p[1]][p[2]].uid = u}

\* the uids of the messages of the server state b in the mailboxes ns
UidsIn(b, ns) == UNION {Uids(b[n]) : n \in ns \cap DOMAIN b}

\* C36: a live move conserves messages: when it has completed without a failing
\* command, every message is as often in the source subtree and the archive
\* mailboxes together as before the run (none lost, none both in an archive and
\* still in its source, none twice in an archive).
C36_MoveConserves ==
    LiveMoveDone =>
        \A u \in UidsIn(boxes0, SourceBoxes \cup ArchiveBoxes)
                    \cup UidsIn(boxes, SourceBoxes \cup ArchiveBoxes) :
            Cardinality(PlacesOf(boxes, SourceBoxes \cup ArchiveBoxes, u))
                = Cardinality(PlacesOf(boxes0, SourceBoxes \cup ArchiveBoxes, u))

\* the years of the old seen messages source mailbox n had when move started
OldYears(n) == {boxes0[n][i].date : i \in {j \in 1..Len(boxes0[n]) : OldSeen(boxes0[n][j])}}

\* the source mailboxes move has to archive from: not omitted, with an old
\* seen message
Archived == {n \in SourceBoxes : n \notin omit /\ OldYears(n) # {}}

\* the archive mailboxes of the old buckets of those mailboxes, and the
\* mailboxes above them
ArchivePaths ==
    UNION {UNION {{SubSeq(ArchiveMailbox(mailbox_to, y, n), 1, k) :
                      k \in 1..Len(ArchiveMailbox(mailbox_to, y, n))} :
                  y \in OldYears(n)} : n \in Archived}

C34_CleanKeepsMessages ==
    (cmd = "clean" /\ ~dry_run) =>
        /\ \A j \in 1..Len(log) :
              (log[j].op = "delete" /\ log[j].st = "OK") => boxes0[log[j].box] = <<>>
        /\ \A n \in SourceBoxes : \A u \in Uids(boxes0[n]) :
              n \in DOMAIN boxes /\ u \in Uids(boxes[n])

SecondRun ==
    IF \E j \in 1..Len(log) : log[j].op = "run"
    THEN CHOOSE j \in 1..Len(log) : log[j].op = "run"
    ELSE 0

\* C37: move is idempotent: a second live move with the same arguments, started
\* after a first one that completed with every command answered OK, copies no
\* message and creates no mailbox, also when the target root lies inside the
\* source subtree.
C37_MoveIdempotent ==
    (cmd = "move" /\ ~dry_run /\ SecondRun # 0) =>
        \A j \in (SecondRun + 1)..Len(log) : log[j].op \notin {"copy", "create"}

\* s without the repetitions that follow one another
RECURSIVE Runs(_)
Runs(s) ==
    IF Len(s) <= 1 THEN s
    ELSE IF s[1] = s[2] THEN Runs(Tail(s))
    ELSE <<s[1]>> \o Runs(Tail(s))

\* the mailboxes of the listing in the order in which the command has come to
\* them: by the lines it has printed for scan --list-boxes-only, by the commands
\* it has sent otherwise, and the one it is at
Processed ==
    LET sent   == SelectSeq(log, LAMBDA e : e.box \in DOMAIN mbs /\ e.op # "list")
        come   == IF ListBoxesOnly(cmd) THEN [i \in 1..Len(report) |-> report[i].src]
                  ELSE Runs([i \in 1..Len(sent) |-> sent[i].box])
    IN  IF mb = NoBox \/ mb \in SeqToSet(come) THEN come ELSE Append(come, mb)

\* C32: scan, move, clean and download go through the mailboxes of a listing in
\* ascending order of their names, whatever the order in which the server has
\* returned them: the mailboxes a command has come to, followed by those it
\* has still to do, are the mailboxes of the listing, each once and in
\* ascending order, and the dict it works on is the one of the listing in
\* ascending order, so that two listings that are permutations of each other
\* give the same commands.
C32_AscendingOrder ==
    (cmd \in OrderCommands /\ pc # "start") =>
        LET line == Processed \o todo
        IN  /\ \A i, j \in 1..Len(line) : i < j => NameLess(line[i], line[j])
            /\ (pc # "exit" => SeqToSet(line) = {e.name : e \in SrvList(boxes0, mailbox_from)})
            /\ mbs = MailboxesOf(ListLines(boxes0, mailbox_from))

\* a command has come to its end on a listing of three mailboxes that the
\* server has returned in descending order
C32_Witness ==
    /\ cmd \in OrderCommands /\ pc = "done"
    /\ Len(mailbox_list) = 3
    /\ NameLess(mailbox_list[3].name, mailbox_list[2].name)
    /\ NameLess(mailbox_list[2].name, mailbox_list[1].name)
    /\ Len(Processed) = 3

\* a second quote_path, or strip_path, leaves what the first has given
PathTwiceSame ==
    (cmd \in {"quote_path", "strip_path"} /\ pc = "twice") => mailbox_to = mb

\* C31: the Mailbox made of a listing line, its name quoted again by
\* quote_path, gives a path that selects the mailbox the path of the line
\* selects; and quote_path and strip_path are idempotent: a second call leaves
\* what the first has given.
C31_RoundTrip ==
    /\ (cmd = "node" /\ pc = "done") =>
          /\ log[Len(log)].st = "OK"
          /\ selected = Selects(listed.path)
    /\ PathTwiceSame

====
